---------------------------- MODULE Spec2Model ----------------------------
(***************************************************************************)
(* A model of src/script.js: the TrelloAI application object.              *)
(*                                                                         *)
(* src/script.js holds two revisions of class TrelloAI.  Lines 1-931 are   *)
(* the full-featured variant (remote /chat assistant, feedback,            *)
(* escalation); lines 932-1449 are the local-only variant (keyword         *)
(* classifier behind a 1000 ms timer).  The board/list/card code is        *)
(* textually the same in both.                                             *)
(*                                                                         *)
(* Text is modelled as a sequence of one-character strings, so that        *)
(* trim(), toLowerCase(), includes() and the task-name regular expression  *)
(* are computed, not assumed.  An identifier 'board-' + n is the pair      *)
(* <<"board", n>>.                                                         *)
(***************************************************************************)
EXTENDS Integers, Sequences, FiniteSets, TLC

VARIABLES
    boards,          \* this.boards
    store,           \* localStorage['trello-boards']
    now,             \* the reading Date.now() returns
    aiMessages,      \* this.aiMessages, the assistant transcript
    timers,          \* callbacks handed to setTimeout and not yet run
    pending,         \* fetch() calls in flight, with the continuation awaiting each
    sessionId,       \* this.sessionId
    escalationData,  \* this.escalationData
    escStore,        \* localStorage['escalation-data']
    requests,        \* history: the remote requests issued so far
    sends,           \* history: number of non-empty sends / submissions so far
    ops,             \* history: number of board-changing handler runs so far
    okCardCalls,     \* history: createCard calls whose boardId and listId resolved
    hrMessages,      \* this.hrMessages: the HR assistant's transcript
    feedbackData,    \* this.feedbackData: the feedback records
    fbStore,         \* localStorage['feedback-data']
    feedbackModal,   \* the feedback dialog: this.currentFeedbackMessageId and the rating button selected
    lastOp           \* what the last assistant handler showed: its response, or an alert() dialog still open

vars == <<boards, store, now, aiMessages, timers, pending, sessionId,
          escalationData, escStore, requests, sends, ops, okCardCalls, hrMessages,
          feedbackData, fbStore, feedbackModal, lastOp>>

boardVars == <<boards, store>>
chatVars  == <<aiMessages, timers, pending, sessionId, escalationData, escStore,
               requests, sends, hrMessages, feedbackData, fbStore,
               feedbackModal>>

-----------------------------------------------------------------------------
(* Bounds of the model.                                                    *)

MaxOps == 3        \* board-changing handler runs per behaviour
MaxTicks == 1      \* clock advances per behaviour
ClockStart == 1000 \* first clock reading (any value above the seed ids 1..4)
MaxSends == 2      \* assistant sends / escalation submissions per behaviour
MaxLocalSends == 1 \* local-only variant: assistant sends per behaviour
MaxLocalOps == 1   \* local-only variant: confirmed deletions per behaviour

-----------------------------------------------------------------------------
(* Text.                                                                   *)

Range(s) == {s[i] : i \in 1..Len(s)}

Min(S) == CHOOSE x \in S : \A y \in S : x <= y

UpperCase == <<"A","B","C","D","E","F","G","H","I","J","K","L","M",
               "N","O","P","Q","R","S","T","U","V","W","X","Y","Z">>
LowerCase == <<"a","b","c","d","e","f","g","h","i","j","k","l","m",
               "n","o","p","q","r","s","t","u","v","w","x","y","z">>

\* String.prototype.toLowerCase, one character
LowerChar(c) ==
    IF \E i \in 1..26 : UpperCase[i] = c
    THEN LowerCase[CHOOSE i \in 1..26 : UpperCase[i] = c]
    ELSE c

\* String.prototype.toLowerCase
toLowerCase(s) == [i \in 1..Len(s) |-> LowerChar(s[i])]

\* white space as trim() and the regular expression's \s see it
WhiteSpace == {" ", "\t", "\n", "\r"}

\* line terminators: what the regular expression's . does not match
LineTerminator == {"\n", "\r"}

\* the string as it is, white space kept
trim_Nothing(s) == s

\* String.prototype.trim
trim(s) ==
    LET dark(i) == s[i] \notin WhiteSpace
        first == CHOOSE i \in 1..Len(s) : dark(i) /\ \A j \in 1..(i - 1) : ~dark(j)
        last  == CHOOSE i \in 1..Len(s) : dark(i) /\ \A j \in (i + 1)..Len(s) : ~dark(j)
    IN  IF \A i \in 1..Len(s) : ~dark(i) THEN <<>> ELSE SubSeq(s, first, last)

\* String.prototype.includes
includes(s, sub) ==
    \E i \in 1..(Len(s) - Len(sub) + 1) : \A k \in 1..Len(sub) : s[i + k - 1] = sub[k]

-----------------------------------------------------------------------------
(* Text constants of the source and of the inputs.                         *)

T_ProjectManagement ==
    <<"P","r","o","j","e","c","t"," ","M","a","n","a","g","e","m","e","n","t">>
T_ToDo ==
    <<"T","o"," ","D","o">>
T_InProgress ==
    <<"I","n"," ","P","r","o","g","r","e","s","s">>
T_Done ==
    <<"D","o","n","e">>
T_Card1 ==
    <<"P","l","a","n"," ","p","r","o","j","e","c","t"," ","a","r","c","h","i","t","e","c","t","u","r","e">>
T_Card2 ==
    <<"S","e","t"," ","u","p"," ","d","e","v","e","l","o","p","m","e","n","t"," ","e","n","v","i","r","o","n","m","e","n","t">>
T_Card3 ==
    <<"I","m","p","l","e","m","e","n","t"," ","u","s","e","r"," ","a","u","t","h","e","n","t","i","c","a","t","i","o","n">>
T_Card4 ==
    <<"I","n","i","t","i","a","l"," ","p","r","o","j","e","c","t"," ","s","e","t","u","p">>
T_DraftReport ==
    <<"D","r","a","f","t"," ","r","e","p","o","r","t">>
T_ReviewDocumentation ==
    <<"R","e","v","i","e","w"," ","d","o","c","u","m","e","n","t","a","t","i","o","n">>
T_DeployToProduction ==
    <<"D","e","p","l","o","y"," ","t","o"," ","p","r","o","d","u","c","t","i","o","n">>
T_Blank ==
    <<" "," ">>

-----------------------------------------------------------------------------
(* The board collection.                                                   *)

BoardId(n) == <<"board", n>>
ListId(n)  == <<"list", n>>
CardId(n)  == <<"card", n>>

\* the object literal of loadSampleData
SampleData ==
    << [id |-> BoardId(1), title |-> T_ProjectManagement, lists |-> <<
         [id |-> ListId(1), title |-> T_ToDo, cards |-> <<
            [id |-> CardId(1), title |-> T_Card1,
             description |-> "Define the overall system design and components"],
            [id |-> CardId(2), title |-> T_Card2,
             description |-> "Install necessary tools and configure workspace"] >>],
         [id |-> ListId(2), title |-> T_InProgress, cards |-> <<
            [id |-> CardId(3), title |-> T_Card3,
             description |-> "Create login/signup functionality",
             aiSuggested |-> TRUE] >>],
         [id |-> ListId(3), title |-> T_Done, cards |-> <<
            [id |-> CardId(4), title |-> T_Card4,
             description |-> "Created basic folder structure and files"] >>] >>] >>

\* Array.prototype.find(x => x.id === id): the index of the first match, 0 for undefined
find(seq, id) ==
    IF \E i \in 1..Len(seq) : seq[i].id = id
    THEN Min({i \in 1..Len(seq) : seq[i].id = id})
    ELSE 0

\* Array.prototype.filter(x => x.id !== id)
RECURSIVE filterOut(_, _)
filterOut(seq, id) ==
    IF seq = <<>> THEN <<>>
    ELSE IF Head(seq).id = id THEN filterOut(Tail(seq), id)
         ELSE <<Head(seq)>> \o filterOut(Tail(seq), id)

RECURSIVE SumSeq(_)
SumSeq(s) == IF s = <<>> THEN 0 ELSE Head(s) + SumSeq(Tail(s))

\* number of lists, of cards, in a board collection
TotalLists(bs) == SumSeq([i \in 1..Len(bs) |-> Len(bs[i].lists)])
TotalCards(bs) ==
    SumSeq([i \in 1..Len(bs) |->
              SumSeq([j \in 1..Len(bs[i].lists) |-> Len(bs[i].lists[j].cards)])])

-----------------------------------------------------------------------------
(* JSON.stringify / JSON.parse of the board collection.  The text is       *)
(* modelled as its syntax tree: a string, a literal (true, false), an      *)
(* array of values, or an object, an ordered sequence of <<key, value>>    *)
(* members.  A property an object does not have has no member.             *)

JString(s)  == [t |-> "string", v |-> s]
JLiteral(b) == [t |-> "literal",
                v |-> IF b THEN <<"t","r","u","e">> ELSE <<"f","a","l","s","e">>]
JArray(a)   == [t |-> "array", v |-> a]
JObject(ms) == [t |-> "object", v |-> ms]

\* stringify writing aiSuggested: false for a card that has no such property
stringifyCard_DefaultFlag(c) ==
    [t |-> "object",
     v |-> << <<"id", [t |-> "string", v |-> c.id]>>,
              <<"title", [t |-> "string", v |-> c.title]>>,
              <<"description", [t |-> "string", v |-> c.description]>>,
              <<"aiSuggested",
                [t |-> "literal",
                 v |-> IF "aiSuggested" \in DOMAIN c /\ c.aiSuggested
                       THEN <<"t","r","u","e">> ELSE <<"f","a","l","s","e">>]>> >>]

stringifyCard(c) ==
    JObject(<< <<"id", JString(c.id)>>, <<"title", JString(c.title)>>,
               <<"description", JString(c.description)>> >>
            \o IF "aiSuggested" \in DOMAIN c
               THEN << <<"aiSuggested", JLiteral(c.aiSuggested)>> >>
               ELSE << >>)

stringifyList(l) ==
    JObject(<< <<"id", JString(l.id)>>, <<"title", JString(l.title)>>,
               <<"cards", JArray([i \in 1..Len(l.cards) |-> stringifyCard(l.cards[i])])>> >>)

stringifyBoard(b) ==
    JObject(<< <<"id", JString(b.id)>>, <<"title", JString(b.title)>>,
               <<"lists", JArray([i \in 1..Len(b.lists) |-> stringifyList(b.lists[i])])>> >>)

\* JSON.stringify(this.boards)
stringify(bs) == JArray([i \in 1..Len(bs) |-> stringifyBoard(bs[i])])

\* the value of an object's member
Member(j, k) == (CHOOSE m \in Range(j.v) : m[1] = k)[2]
Keys(j) == {m[1] : m \in Range(j.v)}

parseCard(j) ==
    [k \in Keys(j) |->
        IF k = "aiSuggested" THEN Member(j, k).v = <<"t","r","u","e">>
        ELSE Member(j, k).v]

parseList(j) ==
    [k \in Keys(j) |->
        IF k = "cards"
        THEN [i \in 1..Len(Member(j, k).v) |-> parseCard(Member(j, k).v[i])]
        ELSE Member(j, k).v]

parseBoard(j) ==
    [k \in Keys(j) |->
        IF k = "lists"
        THEN [i \in 1..Len(Member(j, k).v) |-> parseList(Member(j, k).v[i])]
        ELSE Member(j, k).v]

\* JSON.parse of a stored board blob
parse(j) == [i \in 1..Len(j.v) |-> parseBoard(j.v[i])]

\* localStorage.getItem of a key that was never set
Null == [t |-> "null", v |-> << >>]

\* the text '[]'
EmptyArrayText == JArray(<< >>)

-----------------------------------------------------------------------------
(* The board operations.  Each takes and returns the pair                  *)
(* [boards, store]: this.boards and the blob under 'trello-boards'.        *)

\* saveBoards that writes nothing
saveBoards_NoWrite(app) == app

\* saveBoards()
saveBoards(app) == [app EXCEPT !.store = stringify(app.boards)]

\* createBoard(title), Date.now() reading t
createBoard(app, title, t) ==
    saveBoards([app EXCEPT !.boards =
        Append(@, [id |-> BoardId(t), title |-> title, lists |-> << >>])])

\* createList taking the first board when boardId names none
createList_OrFirstBoard(app, boardId, title, t) ==
    LET b == IF find(app.boards, boardId) = 0 /\ Len(app.boards) > 0
             THEN 1 ELSE find(app.boards, boardId)
    IN  IF b = 0 THEN app
        ELSE [boards |-> [app.boards EXCEPT ![b].lists =
                            Append(@, [id |-> ListId(t), title |-> title, cards |-> << >>])],
              store  |-> stringify([app.boards EXCEPT ![b].lists =
                            Append(@, [id |-> ListId(t), title |-> title, cards |-> << >>])])]

\* createList(boardId, title)
createList(app, boardId, title, t) ==
    LET b == find(app.boards, boardId)
    IN  IF b = 0 THEN app
        ELSE saveBoards([app EXCEPT !.boards[b].lists =
                Append(@, [id |-> ListId(t), title |-> title, cards |-> << >>])])

\* createCard with the list looked up by filter/forEach instead of find: the card is
\* pushed onto every list of the board that carries listId
createCard_EveryMatchingList(app, boardId, listId, title, aiSuggested, t) ==
    LET b == find(app.boards, boardId)
    IN  IF b = 0 \/ find(app.boards[b].lists, listId) = 0 THEN app
        ELSE [boards |->
                [app.boards EXCEPT ![b].lists =
                    [j \in 1..Len(@) |->
                        IF @[j].id = listId
                        THEN [@[j] EXCEPT !.cards =
                                Append(@, [id |-> <<"card", t>>, title |-> title,
                                           description |-> "",
                                           aiSuggested |-> aiSuggested])]
                        ELSE @[j]]],
              store |-> app.store]

\* createCard putting the new card first in its list
createCard_First(app, boardId, listId, title, aiSuggested, t) ==
    LET b == find(app.boards, boardId)
    IN  IF b = 0 THEN app
        ELSE LET l == find(app.boards[b].lists, listId)
             IN  IF l = 0 THEN app
                 ELSE saveBoards([app EXCEPT !.boards[b].lists[l].cards =
                        << [id |-> CardId(t), title |-> title,
                            description |-> "", aiSuggested |-> aiSuggested] >> \o @])

\* createCard(boardId, listId, title, aiSuggested)
createCard(app, boardId, listId, title, aiSuggested, t) ==
    LET b == find(app.boards, boardId)
    IN  IF b = 0 THEN app
        ELSE LET l == find(app.boards[b].lists, listId)
             IN  IF l = 0 THEN app
                 ELSE saveBoards([app EXCEPT !.boards[b].lists[l].cards =
                        Append(@, [id |-> CardId(t), title |-> title,
                                   description |-> "", aiSuggested |-> aiSuggested])])

\* updateCard clearing the card's aiSuggested flag with the edit
updateCard_ClearsFlag(app, boardId, listId, cardId, title) ==
    LET b == find(app.boards, boardId)
    IN  IF b = 0 THEN app
        ELSE LET l == find(app.boards[b].lists, listId)
             IN  IF l = 0 THEN app
                 ELSE LET c == find(app.boards[b].lists[l].cards, cardId)
                      IN  IF c = 0 THEN app
                          ELSE saveBoards([app EXCEPT !.boards[b].lists[l].cards[c] =
                                 [id |-> @.id, title |-> title,
                                  description |-> @.description, aiSuggested |-> FALSE]])

\* updateCard putting a new card object in the place of the old one
updateCard_NewObject(app, boardId, listId, cardId, title) ==
    LET b == find(app.boards, boardId)
    IN  IF b = 0 THEN app
        ELSE LET l == find(app.boards[b].lists, listId)
             IN  IF l = 0 THEN app
                 ELSE LET c == find(app.boards[b].lists[l].cards, cardId)
                      IN  IF c = 0 THEN app
                          ELSE saveBoards([app EXCEPT !.boards[b].lists[l].cards[c] =
                                 [id |-> @.id, title |-> title, description |-> ""]])

\* updateCard(boardId, listId, cardId, title)
updateCard(app, boardId, listId, cardId, title) ==
    LET b == find(app.boards, boardId)
    IN  IF b = 0 THEN app
        ELSE LET l == find(app.boards[b].lists, listId)
             IN  IF l = 0 THEN app
                 ELSE LET c == find(app.boards[b].lists[l].cards, cardId)
                      IN  IF c = 0 THEN app
                          ELSE saveBoards([app EXCEPT
                                 !.boards[b].lists[l].cards[c].title = title])

\* deleteBoardConfirm(boardId); confirmed is what confirm() returned
deleteBoardConfirm(app, boardId, confirmed) ==
    IF confirmed
    THEN saveBoards([app EXCEPT !.boards = filterOut(@, boardId)])
    ELSE app

\* deleteListConfirm deleting whatever confirm() returned
deleteListConfirm_Unasked(app, boardId, listId, confirmed) ==
    LET b == find(app.boards, boardId)
    IN  IF b = 0 THEN app
        ELSE [boards |-> [app.boards EXCEPT ![b].lists = filterOut(@, listId)],
              store  |-> stringify([app.boards EXCEPT ![b].lists = filterOut(@, listId)])]

\* deleteListConfirm(boardId, listId)
deleteListConfirm(app, boardId, listId, confirmed) ==
    IF ~confirmed THEN app
    ELSE LET b == find(app.boards, boardId)
         IN  IF b = 0 THEN app
             ELSE saveBoards([app EXCEPT !.boards[b].lists = filterOut(@, listId)])

\* loadSampleData()
loadSampleData(app) ==
    IF Len(app.boards) = 0
    THEN saveBoards([app EXCEPT !.boards = SampleData])
    ELSE app

\* constructor() and init(): the application object a page load builds from the blob
startup(blob) ==
    loadSampleData([boards |-> parse(IF blob = Null THEN EmptyArrayText ELSE blob),
                    store  |-> blob])


-----------------------------------------------------------------------------
(* State of the application object.                                        *)

App == [boards |-> boards, store |-> store]

\* lastOp when no handler's outcome is on show
Idle == [op |-> "none"]

\* the feedback dialog hidden: this.currentFeedbackMessageId = null, no rating selected
NoFeedbackModal == [open |-> FALSE, currentFeedbackMessageId |-> << >>, rating |-> "none"]

\* this.sessionId = null
NoSession == [has |-> FALSE, id |-> << >>]

\* The page is opened with nothing under any key: constructor() and init().
Init ==
    /\ boards = startup(Null).boards
    /\ store = startup(Null).store
    /\ now = ClockStart
    /\ aiMessages = << >>
    /\ timers = << >>
    /\ pending = << >>
    /\ sessionId = NoSession
    /\ escalationData = << >>
    /\ escStore = Null
    /\ hrMessages = << >>
    /\ feedbackData = << >>
    /\ fbStore = Null
    /\ feedbackModal = NoFeedbackModal
    /\ requests = << >>
    /\ sends = 0
    /\ ops = 0
    /\ okCardCalls = 0
    /\ lastOp = Idle

\* The clock moves on: a later Date.now() returns a larger reading.
Tick ==
    /\ now < ClockStart + MaxTicks
    /\ now' = now + 1
    /\ UNCHANGED <<boardVars, chatVars, ops, okCardCalls, lastOp>>

-----------------------------------------------------------------------------
(* Inputs of the board handlers.                                           *)

\* what the user may have typed into #modal-input
M_PaddedDraft ==
    <<" ","D","r","a","f","t"," ","r","e","p","o","r","t"," ">>
ModalInputs == { << >>, T_Blank, M_PaddedDraft }

\* identifiers no board, list or card has (a modal opened on an entity since deleted)
StaleBoardId == BoardId(0)
StaleListId  == ListId(0)
StaleCardId  == CardId(0)

BoardIds == {boards[i].id : i \in 1..Len(boards)} \cup {StaleBoardId}

\* the <<boardId, listId>> an "+ Add Card" button was drawn with, or stale ones
ListPaths ==
    UNION {{<<boards[i].id, boards[i].lists[j].id>> : j \in 1..Len(boards[i].lists)} :
           i \in 1..Len(boards)}
    \cup {<<boards[i].id, StaleListId>> : i \in 1..Len(boards)}
    \cup {<<StaleBoardId, StaleListId>>}

\* the <<boardId, listId, cardId>> a card was drawn with, or stale ones
CardPaths ==
    UNION {UNION {{<<boards[i].id, boards[i].lists[j].id, boards[i].lists[j].cards[k].id>> :
                      k \in 1..Len(boards[i].lists[j].cards)} :
                  j \in 1..Len(boards[i].lists)} : i \in 1..Len(boards)}
    \cup {<<p[1], p[2], StaleCardId>> : p \in ListPaths}

\* whether boardId, boardId/listId, boardId/listId/cardId name an entity
ResolvesBoard(bs, boardId) == find(bs, boardId) # 0
ResolvesList(bs, boardId, listId) ==
    /\ ResolvesBoard(bs, boardId)
    /\ find(bs[find(bs, boardId)].lists, listId) # 0
ResolvesCard(bs, boardId, listId, cardId) ==
    /\ ResolvesList(bs, boardId, listId)
    /\ LET b == find(bs, boardId)
       IN  find(bs[b].lists[find(bs[b].lists, listId)].cards, cardId) # 0

-----------------------------------------------------------------------------
(* The board handlers.                                                     *)

\* handleModalConfirm(): the switch on this.modalType, value already trimmed
modalSwitch(app, type, data, value, t) ==
    CASE type = "board" -> createBoard(app, value, t)
      [] type = "list" -> createList(app, data.boardId, value, t)
      [] type = "card" -> createCard(app, data.boardId, data.listId, value, FALSE, t)
      [] type = "edit-card" ->
            updateCard(app, data.boardId, data.listId, data.cardId, value)

\* handleModalConfirm() with this.modalType, this.modalData and the input's text
handleModalConfirm(app, type, data, raw, t) ==
    LET value == trim(raw)
    IN  IF value = << >> THEN app ELSE modalSwitch(app, type, data, value, t)

\* whether the ids of the modal's data resolve
ModalResolves(type, data) ==
    CASE type = "board" -> TRUE
      [] type = "list" -> ResolvesBoard(boards, data.boardId)
      [] type = "card" -> ResolvesList(boards, data.boardId, data.listId)
      [] type = "edit-card" ->
            ResolvesCard(boards, data.boardId, data.listId, data.cardId)

\* A click on #modal-confirm.
ModalConfirm(type, data, raw) ==
    LET r == handleModalConfirm(App, type, data, raw, now)
        effective == trim(raw) # << >> /\ ModalResolves(type, data)
    IN  /\ ops < MaxOps
        /\ boards' = r.boards
        /\ store' = r.store
        /\ ops' = IF effective THEN ops + 1 ELSE ops
        /\ okCardCalls' = IF effective /\ type = "card" THEN okCardCalls + 1
                          ELSE okCardCalls
        /\ UNCHANGED <<now, chatVars, lastOp>>

ConfirmBoard ==
    \E raw \in ModalInputs : ModalConfirm("board", [none |-> TRUE], raw)

ConfirmList ==
    \E raw \in ModalInputs, b \in BoardIds :
        ModalConfirm("list", [boardId |-> b], raw)

ConfirmCard ==
    \E raw \in ModalInputs, p \in ListPaths :
        ModalConfirm("card", [boardId |-> p[1], listId |-> p[2]], raw)

ConfirmEditCard ==
    \E raw \in ModalInputs, p \in CardPaths :
        ModalConfirm("edit-card", [boardId |-> p[1], listId |-> p[2], cardId |-> p[3]], raw)

\* A click on a board's bin: onclick="app.deleteBoardConfirm('${board.id}')" of the
\* i-th board drawn, and the answer to confirm().
DeleteBoard(i, confirmed) ==
    LET r == deleteBoardConfirm(App, boards[i].id, confirmed)
    IN  /\ ops < MaxOps
        /\ boards' = r.boards
        /\ store' = r.store
        /\ ops' = IF confirmed THEN ops + 1 ELSE ops
        /\ UNCHANGED <<now, chatVars, okCardCalls, lastOp>>

ClickDeleteBoard ==
    \E i \in 1..Len(boards), confirmed \in BOOLEAN : DeleteBoard(i, confirmed)

\* A click on the bin of the j-th list of the i-th board:
\* onclick="app.deleteListConfirm('${boardId}', '${list.id}')".
DeleteList(i, j, confirmed) ==
    LET r == deleteListConfirm(App, boards[i].id, boards[i].lists[j].id, confirmed)
    IN  /\ ops < MaxOps
        /\ boards' = r.boards
        /\ store' = r.store
        /\ ops' = IF confirmed THEN ops + 1 ELSE ops
        /\ UNCHANGED <<now, chatVars, okCardCalls, lastOp>>

ClickDeleteList ==
    \E i \in 1..Len(boards) : \E j \in 1..Len(boards[i].lists), confirmed \in BOOLEAN :
        DeleteList(i, j, confirmed)

\* The page is loaded again: a new application object, built from localStorage.
Restart ==
    /\ boards' = startup(store).boards
    /\ store' = startup(store).store
    /\ aiMessages' = << >>
    /\ timers' = << >>
    /\ pending' = << >>
    /\ sessionId' = NoSession
    /\ hrMessages' = << >>
    /\ UNCHANGED <<now, escalationData, escStore, requests, sends, ops, okCardCalls, lastOp,
                   feedbackData, fbStore>>
    /\ feedbackModal' = NoFeedbackModal

-----------------------------------------------------------------------------
(* Specifications.                                                         *)

\* the board handlers, the clock and page reloads
Next ==
    \/ Tick
    \/ ConfirmBoard
    \/ ConfirmList
    \/ ConfirmCard
    \/ ConfirmEditCard
    \/ ClickDeleteBoard
    \/ ClickDeleteList
    \/ Restart

Spec == Init /\ [][Next]_vars

\* createBoard / createList / createCard only
NextCreate ==
    \/ Tick
    \/ ConfirmBoard
    \/ ConfirmList
    \/ ConfirmCard

SpecCreate == Init /\ [][NextCreate]_vars

\* A page load, from a 'trello-boards' value the browser already holds.

MaxStartupOps == 2

\* a stored text that is not JSON
MalformedText == [t |-> "text", v |-> <<"[", "{">>]

\* what localStorage may hold under 'trello-boards' when the page is opened
StoredBlobs == {Null, EmptyArrayText, MalformedText, stringify(SampleData)}

\* JSON.parse(text) throws a SyntaxError
SyntaxError(blob) == blob # Null /\ blob.t \notin {"array", "object", "string", "literal"}

\* lastOp while the script has not run yet, and after `new TrelloAI()` threw
Loading == [op |-> "load"]
ConstructorThrew == [op |-> "constructor", threw |-> "SyntaxError"]

InitPage ==
    /\ boards = << >>
    /\ store \in StoredBlobs
    /\ now = ClockStart
    /\ aiMessages = << >>
    /\ timers = << >>
    /\ pending = << >>
    /\ sessionId = NoSession
    /\ escalationData = << >>
    /\ escStore = Null
    /\ hrMessages = << >>
    /\ feedbackData = << >>
    /\ fbStore = Null
    /\ feedbackModal = NoFeedbackModal
    /\ requests = << >>
    /\ sends = 0
    /\ ops = 0
    /\ okCardCalls = 0
    /\ lastOp = Loading

\* `const app = new TrelloAI()`: the constructor parses the stored value with no
\* try/catch and then runs init(); a SyntaxError leaves the page without an app object.
LoadPage ==
    /\ lastOp = Loading
    /\ IF SyntaxError(store)
       THEN /\ lastOp' = ConstructorThrew
            /\ UNCHANGED boardVars
       ELSE /\ boards' = startup(store).boards
            /\ store' = startup(store).store
            /\ lastOp' = Idle
    /\ UNCHANGED <<now, chatVars, ops, okCardCalls>>

\* a board handler of a page whose app object exists
Started(A) == lastOp = Idle /\ ops < MaxStartupOps /\ A

\* The user reloads the page.
ReloadPage ==
    /\ lastOp # Loading
    /\ lastOp' = Loading
    /\ boards' = << >>
    /\ UNCHANGED <<store, now, chatVars, ops, okCardCalls>>

NextStartup ==
    \/ LoadPage
    \/ ReloadPage
    \/ Started(ConfirmBoard)
    \/ Started(ConfirmList)
    \/ Started(ConfirmCard)
    \/ Started(ConfirmEditCard)
    \/ Started(ClickDeleteBoard)
    \/ Started(ClickDeleteList)

SpecStartup == InitPage /\ [][NextStartup]_vars


-----------------------------------------------------------------------------
(* Claims about the board collection.                                      *)

RemoveAt(seq, i) == SubSeq(seq, 1, i - 1) \o SubSeq(seq, i + 1, Len(seq))

\* boards' is boards with one card appended to the j-th list of the i-th board
GainsOneCard(old, new, i, j) ==
    /\ Len(new) = Len(old)
    /\ Len(new[i].lists) = Len(old[i].lists)
    /\ Len(new[i].lists[j].cards) = Len(old[i].lists[j].cards) + 1
    /\ new = [old EXCEPT ![i].lists[j].cards =
                Append(@, new[i].lists[j].cards[Len(new[i].lists[j].cards)])]

\* C1, the count: under createBoard / createList / createCard alone, the number of
\* cards is the number the seed data holds plus the number of createCard calls whose
\* boardId and listId both resolved.
C1_Count == TotalCards(boards) = TotalCards(SampleData) + okCardCalls

\* C1, ownership: a createCard call that resolved puts its card into exactly one
\* list of exactly one board and leaves every other list and board as it was; any
\* other call leaves the number of cards as it was and removes no board or list.
C1_Step ==
    /\ okCardCalls' = okCardCalls + 1 =>
          \E i \in 1..Len(boards) : \E j \in 1..Len(boards[i].lists) :
              GainsOneCard(boards, boards', i, j)
    /\ okCardCalls' = okCardCalls =>
          /\ TotalCards(boards') = TotalCards(boards)
          /\ Len(boards') >= Len(boards)
          /\ TotalLists(boards') >= TotalLists(boards)

\* C1: for every sequence of createBoard / createList / createCard calls with non-empty
\* titles the card count is the seed's plus the resolved createCard calls, and every
\* card sits in exactly one list of exactly one board.
C1_CardCountAndOwnership == [](C1_Count) /\ [][C1_Step]_vars

\* C1 witness: a card was created in a list that was itself created in a board that
\* was itself created, and a second card elsewhere.
C1_Witness ==
    /\ okCardCalls >= 1
    /\ Len(boards) >= 2
    /\ Len(boards[2].lists) >= 1
    /\ Len(boards[2].lists[1].cards) >= 1
    /\ TotalCards(boards) = TotalCards(SampleData) + okCardCalls

\* C2: a confirmed deleteBoardConfirm on the i-th board leaves no board with its id
\* and keeps exactly the other boards; a confirmed deleteListConfirm on the j-th list
\* of the i-th board leaves no list with its id in that board and keeps exactly
\* the other lists, and every other board.
C2_DeleteRemovesExactlyOwned ==
    [][ /\ \A i \in 1..Len(boards) :
              DeleteBoard(i, TRUE) =>
                 /\ \A k \in 1..Len(boards') : boards'[k].id # boards[i].id
                 /\ boards' = RemoveAt(boards, i)
        /\ \A i \in 1..Len(boards) : \A j \in 1..Len(boards[i].lists) :
              DeleteList(i, j, TRUE) =>
                 /\ Len(boards') = Len(boards)
                 /\ \A k \in 1..Len(boards'[i].lists) :
                        boards'[i].lists[k].id # boards[i].lists[j].id
                 /\ boards' = [boards EXCEPT ![i].lists = RemoveAt(@, j)]
      ]_vars

\* C4 as stated: saving any reachable board collection and starting a fresh
\* application instance yields a collection equal to the one saved.
C4_ReloadYieldsSaved == startup(saveBoards(App).store).boards = boards

\* C4 as amended: the same for every reachable collection that is not empty; the
\* empty collection comes back as the seed sample data.
C4_ReloadYieldsSavedUnlessEmpty ==
    /\ boards # << >> => startup(saveBoards(App).store).boards = boards
    /\ boards = << >> => startup(saveBoards(App).store).boards = SampleData

\* C4 witness: a collection that differs from the seed data, holds cards with and
\* without the aiSuggested property and an empty list, and survives the reload.
C4_Witness ==
    /\ boards # << >>
    /\ boards # SampleData
    /\ \E i \in 1..Len(boards) : \E j \in 1..Len(boards[i].lists) :
          \E k \in 1..Len(boards[i].lists[j].cards) :
              "aiSuggested" \notin DOMAIN boards[i].lists[j].cards[k]
    /\ \E i \in 1..Len(boards) : \E j \in 1..Len(boards[i].lists) :
          \E k \in 1..Len(boards[i].lists[j].cards) :
              /\ "aiSuggested" \in DOMAIN boards[i].lists[j].cards[k]
              /\ ~boards[i].lists[j].cards[k].aiSuggested
    /\ \E i \in 1..Len(boards) : \E j \in 1..Len(boards[i].lists) :
          boards[i].lists[j].cards = << >>
    /\ startup(saveBoards(App).store).boards = boards


-----------------------------------------------------------------------------
(* The assistant's keyword classifier: generateAIResponse of the           *)
(* local-only variant, generateFallbackResponse of the full-featured one.  *)

KW_task      == <<"t","a","s","k">>
KW_card      == <<"c","a","r","d">>
KW_organize  == <<"o","r","g","a","n","i","z","e">>
KW_structure == <<"s","t","r","u","c","t","u","r","e">>
KW_help      == <<"h","e","l","p">>
KW_how       == <<"h","o","w">>
KW_create    == <<"c","r","e","a","t","e">>
KW_add       == <<"a","d","d">>

\* the characters of the class ["'"]
Quotes == {"\"", "'"}

NotQuote(c) == c \notin Quotes
IsSpace(c)  == c \in WhiteSpace
IsDot(c)    == c \notin LineTerminator

\* c belongs to the character class written class
InClass(class, c) ==
    CASE class = "[^\"']" -> NotQuote(c)
      [] class = "\\s"    -> IsSpace(c)
      [] class = "."       -> IsDot(c)

\* the last index of the longest run of characters of a class that starts at p
\* (p - 1 when s[p] is not of the class): a greedy quantifier
RunEnd(s, p, class) ==
    IF \A k \in p..Len(s) : InClass(class, s[k]) THEN Len(s)
    ELSE (CHOOSE k \in p..Len(s) :
             ~InClass(class, s[k]) /\ \A j \in p..(k - 1) : InClass(class, s[j])) - 1

NoMatch == [ok |-> FALSE, name |-> << >>]

\* the literal word of an alternative at index i, under the /i flag
WordAt(s, i, word) ==
    /\ i + Len(word) - 1 <= Len(s)
    /\ toLowerCase(SubSeq(s, i, i + Len(word) - 1)) = word

\* ["']([^"']+)["'] with the opening quote at q: the class takes the longest run of
\* non-quotes, which must be non-empty and be followed by a character (then a quote)
QuotedAt(s, q) ==
    /\ s[q] \in Quotes
    /\ RunEnd(s, q + 1, "[^\"']") >= q + 1
    /\ RunEnd(s, q + 1, "[^\"']") < Len(s)

\* word.*?["']([^"']+)["'] at index i: the lazy .*? stops at the first quote from
\* which the rest matches, and crosses no line terminator
quotedAlternative(s, i, word) ==
    LET from == i + Len(word)
        ok(q) == /\ QuotedAt(s, q)
                 /\ \A k \in from..(q - 1) : IsDot(s[k])
        qs == {q \in from..Len(s) : ok(q)}
    IN  IF ~WordAt(s, i, word) \/ qs = {} THEN NoMatch
        ELSE [ok |-> TRUE,
              name |-> SubSeq(s, Min(qs) + 1, RunEnd(s, Min(qs) + 1, "[^\"']"))]

\* word\s+(.+) at index i: \s+ takes the longest run of white space and gives back
\* one character at a time until .+ finds a character that is no line terminator
trailingAlternative(s, i, word) ==
    LET from == i + Len(word)
        ps == {p \in (from + 1)..(RunEnd(s, from, "\\s") + 1) :
                  p <= Len(s) /\ IsDot(s[p])}
        start == CHOOSE p \in ps : \A r \in ps : r <= p
    IN  IF ~WordAt(s, i, word) \/ ps = {} THEN NoMatch
        ELSE [ok |-> TRUE, name |-> SubSeq(s, start, RunEnd(s, start, "."))]

\* the four alternatives tried in order at index i; taskName is the group that took part
matchAt(s, i) ==
    IF quotedAlternative(s, i, KW_create).ok THEN quotedAlternative(s, i, KW_create)
    ELSE IF quotedAlternative(s, i, KW_add).ok THEN quotedAlternative(s, i, KW_add)
    ELSE IF trailingAlternative(s, i, KW_create).ok THEN trailingAlternative(s, i, KW_create)
    ELSE trailingAlternative(s, i, KW_add)

\* userMessage.match(/create.*?["']([^"']+)["']|add.*?["']([^"']+)["']|create\s+(.+)|add\s+(.+)/i)
\* and taskMatch[1] || taskMatch[2] || taskMatch[3] || taskMatch[4]: the leftmost match
taskMatch(s) ==
    LET is == {i \in 1..Len(s) : matchAt(s, i).ok}
    IN  IF is = {} THEN NoMatch ELSE matchAt(s, Min(is))

suggestions ==
    << "I suggest breaking this down into smaller tasks for better tracking.",
       "Consider adding a deadline to this task to improve productivity.",
       "This task might benefit from being moved to a different list based on priority.",
       "I recommend creating subtasks for this complex item." >>

organizationTips ==
    << "Try organizing your boards by project or department for better clarity.",
       "Consider using color coding or labels to categorize different types of tasks.",
       "I recommend creating templates for recurring project types.",
       "Think about implementing a workflow: Backlog -> To Do -> In Progress -> Review -> Done" >>
       \* (the arrows are the character U+2192 in the source)

helpResponse ==
    "I can help you organize tasks, suggest improvements, create cards automatically, and provide productivity tips. What specific area would you like assistance with?"

createdTemplate ==
    "I've created a new task: \"${taskName}\" and added it to your first board. You can find it marked as AI-suggested."

specifyResponse ==
    "I'd be happy to help create tasks! Please specify what task you'd like me to add."

defaultResponses ==
    << "I'm here to help you manage your tasks more effectively. What would you like to accomplish?",
       "I can assist with organizing your boards, creating tasks, and improving your workflow. What do you need help with?",
       "Let me know what specific area of task management you'd like to improve, and I'll provide tailored suggestions.",
       "I'm ready to help optimize your productivity. What's your current challenge?" >>

\* the values of Math.floor(Math.random() * 4)
RandomIndexes == 0..3

\* a response: its text, and the task name a template literal substitutes into it
Canned(text) == [text |-> text, taskName |-> << >>]

\* createAITask putting the card into the first board's last list
createAITask_LastList(app, taskName, t) ==
    IF Len(app.boards) > 0
    THEN IF Len(app.boards[1].lists) > 0
         THEN createCard(app, app.boards[1].id,
                         app.boards[1].lists[Len(app.boards[1].lists)].id, taskName, TRUE, t)
         ELSE app
    ELSE app

\* createAITask(taskName)
createAITask(app, taskName, t) ==
    IF Len(app.boards) > 0
    THEN IF Len(app.boards[1].lists) > 0
         THEN createCard(app, app.boards[1].id, app.boards[1].lists[1].id, taskName, TRUE, t)
         ELSE app
    ELSE app

\* generateAIResponse testing for create / add before the other keywords
generateAIResponse_CreateFirst(app, userMessage, rnd, t) ==
    LET lowerMessage == toLowerCase(userMessage)
        taskName == taskMatch(userMessage).name
    IN  IF includes(lowerMessage, KW_create) \/ includes(lowerMessage, KW_add)
        THEN IF taskMatch(userMessage).ok
             THEN [app |-> createAITask(app, taskName, t),
                   response |-> [text |-> createdTemplate, taskName |-> taskName]]
             ELSE [app |-> app, response |-> Canned(specifyResponse)]
        ELSE IF includes(lowerMessage, KW_task) \/ includes(lowerMessage, KW_card)
        THEN [app |-> app, response |-> Canned(suggestions[rnd + 1])]
        ELSE IF includes(lowerMessage, KW_organize) \/ includes(lowerMessage, KW_structure)
        THEN [app |-> app, response |-> Canned(organizationTips[rnd + 1])]
        ELSE IF includes(lowerMessage, KW_help) \/ includes(lowerMessage, KW_how)
        THEN [app |-> app, response |-> Canned(helpResponse)]
        ELSE [app |-> app, response |-> Canned(defaultResponses[rnd + 1])]

\* generateAIResponse(userMessage); rnd is the random index drawn, t the clock reading.
\* The result is the response and the application's boards and blob afterwards.
generateAIResponse(app, userMessage, rnd, t) ==
    LET lowerMessage == toLowerCase(userMessage)
        taskName == taskMatch(userMessage).name
    IN  IF includes(lowerMessage, KW_task) \/ includes(lowerMessage, KW_card)
        THEN [app |-> app, response |-> Canned(suggestions[rnd + 1])]
        ELSE IF includes(lowerMessage, KW_organize) \/ includes(lowerMessage, KW_structure)
        THEN [app |-> app, response |-> Canned(organizationTips[rnd + 1])]
        ELSE IF includes(lowerMessage, KW_help) \/ includes(lowerMessage, KW_how)
        THEN [app |-> app, response |-> Canned(helpResponse)]
        ELSE IF includes(lowerMessage, KW_create) \/ includes(lowerMessage, KW_add)
        THEN IF taskMatch(userMessage).ok
             THEN [app |-> createAITask(app, taskName, t),
                   response |-> [text |-> createdTemplate, taskName |-> taskName]]
             ELSE [app |-> app, response |-> Canned(specifyResponse)]
        ELSE [app |-> app, response |-> Canned(defaultResponses[rnd + 1])]

-----------------------------------------------------------------------------
(* The local-only variant's assistant.                                     *)

M_CreateDraft ==
    <<"c","r","e","a","t","e"," ","'","D","r","a","f","t"," ","r","e","p","o","r","t","'">>
M_CreateBlank ==
    <<"c","r","e","a","t","e"," ","'"," ","'">>
M_CreateEmpty ==
    <<"c","r","e","a","t","e"," ","'","'">>
M_CreateTaskCalled ==
    <<"C","r","e","a","t","e"," ","a"," ","t","a","s","k"," ","c","a","l","l","e","d"," ","'","R","e","v","i","e","w"," ","d","o","c","u","m","e","n","t","a","t","i","o","n","'">>
M_AddDeploy ==
    <<"A","d","d"," ","'","D","e","p","l","o","y"," ","t","o"," ","p","r","o","d","u","c","t","i","o","n","'"," ","t","o"," ","m","y"," ","b","o","a","r","d">>
M_OrganizeTasks ==
    <<"H","o","w"," ","s","h","o","u","l","d"," ","I"," ","o","r","g","a","n","i","z","e"," ","m","y"," ","p","r","o","j","e","c","t"," ","t","a","s","k","s","?">>
M_OrganizeBoard ==
    <<" ","o","r","g","a","n","i","z","e"," ","m","y"," ","b","o","a","r","d"," ">>
M_Help ==
    <<"h","e","l","p">>
M_Hello ==
    <<"h","e","l","l","o">>
M_Add ==
    <<"a","d","d"," ">>

\* what the user may have typed into #ai-input
AIInputs ==
    { << >>, T_Blank, M_CreateDraft, M_CreateBlank, M_CreateEmpty, M_CreateTaskCalled,
      M_AddDeploy, M_OrganizeTasks, M_OrganizeBoard, M_Help, M_Hello, M_Add }

\* sendAIMessage() of the local-only variant, the input holding raw
SendAIMessageLocal(raw) ==
    \E message \in {trim(raw)} :
        /\ sends < MaxLocalSends
        /\ IF message = << >>
           THEN UNCHANGED <<aiMessages, timers, sends>>
           ELSE /\ aiMessages' = Append(aiMessages, [type |-> "user", content |-> message])
                /\ timers' = Append(timers, [kind |-> "aiResponse", message |-> message])
                /\ sends' = sends + 1
        /\ lastOp' = [op |-> "sendAIMessage", blank |-> (message = << >>)]
        /\ UNCHANGED <<boardVars, now, pending, sessionId, escalationData, escStore,
                       requests, ops, okCardCalls,
                       hrMessages, feedbackData, fbStore, feedbackModal>>

SendLocal == \E raw \in AIInputs : SendAIMessageLocal(raw)

\* The callback sendAIMessage handed to setTimeout(..., 1000) runs.  All these
\* timers have the same delay, so they run in the order they were set.
AIResponseTimer(rnd) ==
    /\ timers # << >>
    /\ Head(timers).kind = "aiResponse"
    /\ \E r \in {generateAIResponse(App, Head(timers).message, rnd, now)} :
           /\ boards' = r.app.boards
           /\ store' = r.app.store
           /\ aiMessages' = Append(aiMessages, [type |-> "ai", content |-> r.response])
           /\ lastOp' = [op |-> "generateAIResponse", message |-> Head(timers).message,
                         response |-> r.response]
    /\ timers' = Tail(timers)
    /\ UNCHANGED <<now, pending, sessionId, escalationData, escStore, requests, sends,
                   ops, okCardCalls,
                   hrMessages, feedbackData, fbStore, feedbackModal>>

LocalTimer == \E rnd \in RandomIndexes : AIResponseTimer(rnd)

\* a delete handler of the local-only variant, within that variant's bound; the
\* delete handlers decide what createAITask finds as first board and first list
LocalBoardOp(A) == ops < MaxLocalOps /\ A

NextLocal ==
    \/ SendLocal
    \/ LocalTimer
    \/ LocalBoardOp(ClickDeleteBoard)
    \/ LocalBoardOp(ClickDeleteList)

\* the local-only variant: script.js lines 932-1449
SpecLocal == Init /\ [][NextLocal]_vars


-----------------------------------------------------------------------------
(* Claims about the local-only variant's assistant.                        *)

\* the message whose response the next aiResponse timer computes
TimerMessage == Head(timers).message

\* the first board exists and has at least one list
FirstListExists == Len(boards) > 0 /\ Len(boards[1].lists) > 0

\* the last card of the first board's first list, in a board collection
NewestFirstListCard(bs) == bs[1].lists[1].cards[Len(bs[1].lists[1].cards)]

\* C3 as stated: a create call with an empty or whitespace-only title leaves the board
\* collection and the persisted blob unchanged, on the modal confirm path (the title
\* typed into the modal) and on the assistant's path (the task name createAITask is
\* called with).
C3_BlankTitleIsNoOp ==
    [][ /\ \A raw \in ModalInputs :
              (trim(raw) = << >> /\ (\/ ModalConfirm("board", [none |-> TRUE], raw)
                                     \/ \E b \in BoardIds :
                                           ModalConfirm("list", [boardId |-> b], raw)
                                     \/ \E q \in ListPaths :
                                           ModalConfirm("card", [boardId |-> q[1],
                                                                 listId |-> q[2]], raw)))
                 => UNCHANGED boardVars
        /\ \A rnd \in RandomIndexes :
              (/\ AIResponseTimer(rnd)
               /\ lastOp'.response.text = createdTemplate
               /\ trim(lastOp'.response.taskName) = << >>)
                 => UNCHANGED boardVars
      ]_vars

\* C5 as stated: every message containing "organize" is answered with one of the
\* organization tips, whatever other keywords it contains.
C5_OrganizeGetsOrganizationTip ==
    [][ \A rnd \in RandomIndexes :
           (AIResponseTimer(rnd) /\ includes(toLowerCase(TimerMessage), KW_organize))
              => \E k \in 1..Len(organizationTips) :
                    lastOp'.response = Canned(organizationTips[k])
      ]_vars

CreateQuotePrefix ==
    <<"c","r","e","a","t","e"," ","'">>

\* the <name> of a message of the form create '<name>'
NameOf(m) == SubSeq(m, Len(CreateQuotePrefix) + 1, Len(m) - 1)

\* m has the form create '<name>', the name holding no quote and none of the
\* keywords the classifier tests before create / add
HasCreateForm(m) ==
    /\ Len(m) > Len(CreateQuotePrefix)
    /\ SubSeq(m, 1, Len(CreateQuotePrefix)) = CreateQuotePrefix
    /\ m[Len(m)] = "'"
    /\ \A k \in 1..Len(NameOf(m)) : NameOf(m)[k] \notin Quotes
    /\ \A w \in {KW_task, KW_card, KW_organize, KW_structure, KW_help, KW_how} :
          ~includes(toLowerCase(NameOf(m)), w)

\* the step appends exactly one card titled name, marked aiSuggested, to the first
\* board's first list, saves, changes nothing else, and answers with the confirmation
\* that holds name
CreatesTask(name) ==
    /\ GainsOneCard(boards, boards', 1, 1)
    /\ NewestFirstListCard(boards').title = name
    /\ NewestFirstListCard(boards').aiSuggested = TRUE
    /\ store' = stringify(boards')
    /\ aiMessages' = Append(aiMessages, [type |-> "ai", content |-> lastOp'.response])
    /\ lastOp'.response.text = createdTemplate
    /\ includes(lastOp'.response.taskName, name)
    /\ UNCHANGED <<escalationData, escStore, sessionId>>

\* C6 as stated: with a first board that has a list, the response to create '<name>'
\* creates exactly one card titled <name>, aiSuggested, at the end of the first
\* board's first list, changes nothing else and returns a confirmation containing
\* <name> -- for every name without quotes and higher-priority keywords.
C6_CreateCommandCreatesCard ==
    [][ \A rnd \in RandomIndexes :
           (AIResponseTimer(rnd) /\ HasCreateForm(TimerMessage) /\ FirstListExists)
              => CreatesTask(NameOf(TimerMessage))
      ]_vars

\* C6, amended: the same for every such name that is not empty.
C6_CreateCommandCreatesCardNonEmpty ==
    [][ \A rnd \in RandomIndexes :
           (/\ AIResponseTimer(rnd)
            /\ HasCreateForm(TimerMessage)
            /\ NameOf(TimerMessage) # << >>
            /\ FirstListExists)
              => CreatesTask(NameOf(TimerMessage))
      ]_vars

\* create 'Draft report' has been answered and its card is the newest of the first list
C6_Witness ==
    /\ lastOp.op = "generateAIResponse"
    /\ lastOp.message = M_CreateDraft
    /\ HasCreateForm(lastOp.message)
    /\ FirstListExists
    /\ NewestFirstListCard(boards).title = T_DraftReport
    /\ NewestFirstListCard(boards).aiSuggested = TRUE
    /\ lastOp.response.taskName = T_DraftReport

\* m holds create or add followed by a quoted name
HasQuotedCommand(m) ==
    \E i \in 1..Len(m) :
        quotedAlternative(m, i, KW_create).ok \/ quotedAlternative(m, i, KW_add).ok

\* C7 as stated: every message that holds create / add followed by a quoted name makes
\* the assistant create the card of that name, marked aiSuggested, also when the
\* message holds "task" or "card".
C7_DocumentedCommandsHonoured ==
    [][ \A rnd \in RandomIndexes :
           (AIResponseTimer(rnd) /\ HasQuotedCommand(TimerMessage) /\ FirstListExists)
              => /\ GainsOneCard(boards, boards', 1, 1)
                 /\ NewestFirstListCard(boards').title = taskMatch(TimerMessage).name
                 /\ NewestFirstListCard(boards').aiSuggested = TRUE
      ]_vars


-----------------------------------------------------------------------------
(* The full-featured variant's assistant: sendAIMessage, callEnhancedAI,   *)
(* refreshBoardsFromAPI and submitEscalation (script.js lines 1-931).      *)
(* Transcript entries carry one field the program does not have: reply     *)
(* (the number of the send an entry belongs to) or ticket (the index of    *)
(* the escalation record it belongs to).                                   *)

Digit == <<"0","1","2","3","4","5","6","7","8","9">>

\* Number.prototype.toString of a non-negative integer
RECURSIVE toString(_)
toString(n) ==
    IF n < 10 THEN <<Digit[n + 1]>>
    ELSE Append(toString(n \div 10), Digit[(n % 10) + 1])

\* the first -k elements, not the last
slice_FromFront(s, k) == SubSeq(s, 1, IF Len(s) < -k THEN Len(s) ELSE -k)

\* slice(k) with a negative k, of a string or an array: the last -k elements
slice(s, k) == SubSeq(s, IF Len(s) + k + 1 < 1 THEN 1 ELSE Len(s) + k + 1, Len(s))

\* new Date().toISOString() at clock reading t
toISOString(t) == <<"ISO", t>>

\* `AI-${Date.now().toString().slice(-6)}`
ticketIdAt(t) == <<"A","I","-">> \o slice(toString(t), -6)

typingText == "AI is thinking..."

errorText ==
    "I apologize, but I encountered an error connecting to my enhanced AI system. Please check if the backend server is running."

escalatedText == "This request has been escalated for human assistance."

ticketTemplate ==
    "Your issue has been escalated to our support team. Ticket ID: ${escalationData.ticketId}. You can expect a response within 2 business days."

\* (the source opens this text with the character U+1F6A8 and a space)
priorityText ==
    "Due to the urgent nature of your request, this has been marked as high priority and escalated to senior support."

\* the session the service answers in: the one the request names, or a new one of
\* its own making when the request carried null
serviceSession(req) ==
    IF req.session.has THEN req.session.id ELSE <<"session", req.reply>>

\* what the /chat endpoint may answer to the request req (response.json())
ChatResponses(req) ==
    { [response |-> "I created the card, but someone should look at this.",
       session_id |-> serviceSession(req), confidence_score |-> <<"0",".","4">>,
       tools_used |-> <<"create_card">>,
       escalation |-> [should_escalate |-> TRUE, escalation_type |-> "human"],
       escalation_message |-> "A colleague will contact you."],
      [response |-> "Here are some tips.",
       confidence_score |-> <<"0",".","9">>, tools_used |-> << >>,
       escalation |-> [should_escalate |-> FALSE, escalation_type |-> "none"]] }

\* how the /chat request req ends: with a body, or with callEnhancedAI throwing
ChatOutcomes(req) ==
    {[ok |-> TRUE, data |-> d] : d \in ChatResponses(req)}
    \cup {[ok |-> FALSE, why |-> w] :
             w \in {"fetch rejects", "response.ok is false", "response.json() rejects"}}

\* if (response.escalation.should_escalate) asking for every response
shouldEscalate_Always(data) == TRUE

\* if (response.escalation.should_escalate)
shouldEscalate(data) == data.escalation.should_escalate

\* the transcript left as it is, typing indicators included
withoutTyping_Kept(msgs) == msgs

\* this.aiMessages.filter(msg => !msg.isTyping)
withoutTyping(msgs) ==
    SelectSeq(msgs, LAMBDA m : ~("isTyping" \in DOMAIN m /\ m.isTyping))

\* JSON.stringify of a transcript entry: its own properties in the order the object
\* literals of the source write them
MessageKeys ==
    <<"type", "content", "id", "timestamp", "confidence", "toolsUsed", "escalation",
      "isTyping", "isError", "isEscalation", "isSystemMessage">>

stringifyMessageMember(m, k) ==
    IF k \in {"isTyping", "isError", "isEscalation", "isSystemMessage"}
    THEN JLiteral(m[k])
    ELSE IF k = "confidence" THEN [t |-> "literal", v |-> m[k]]
    ELSE IF k = "toolsUsed" THEN JArray([i \in 1..Len(m[k]) |-> JString(m[k][i])])
    ELSE IF k = "escalation"
    THEN JObject(<< <<"should_escalate", JLiteral(m[k].should_escalate)>>,
                    <<"escalation_type", JString(m[k].escalation_type)>> >>)
    ELSE JString(m[k])

stringifyMessage(m) ==
    LET present == SelectSeq(MessageKeys, LAMBDA k : k \in DOMAIN m)
    IN  JObject([i \in 1..Len(present) |->
                    <<present[i], stringifyMessageMember(m, present[i])>>])

stringifyEscalation(e) ==
    JObject(<< <<"id", JString(e.id)>>, <<"ticketId", JString(e.ticketId)>>,
               <<"issueType", JString(e.issueType)>>,
               <<"description", JString(e.description)>>,
               <<"timestamp", JString(e.timestamp)>>, <<"status", JString(e.status)>>,
               <<"priority", JString(e.priority)>>, <<"source", JString(e.source)>>,
               <<"conversationHistory",
                 JArray([i \in 1..Len(e.conversationHistory) |->
                            stringifyMessage(e.conversationHistory[i])])>> >>)

\* JSON.stringify of the collection as it stood before the newest record was pushed
stringifyEscalations_BeforePush(es) ==
    JArray([i \in 1..(Len(es) - 1) |-> stringifyEscalation(es[i])])

\* JSON.stringify(this.escalationData)
stringifyEscalations(es) == JArray([i \in 1..Len(es) |-> stringifyEscalation(es[i])])

\* an alert() dialog is open: the script that called it, and with it every other
\* handler and callback of the page, waits until the user closes the dialog
AlertOpen == lastOp.op = "alert"

\* the user closes the dialog
DismissAlert ==
    /\ AlertOpen
    /\ lastOp' = Idle
    /\ UNCHANGED <<boardVars, now, chatVars, ops, okCardCalls>>

\* what the user may have typed into #ai-input of the full-featured variant
ChatInputs == {T_Blank, M_Hello}

\* sendAIMessage() up to its await, the input holding raw
SendAIMessageWithin(raw, most) ==
    \E message \in {trim(raw)} :
        /\ ~AlertOpen
        /\ sends < most
        /\ IF message = << >>
           THEN UNCHANGED <<aiMessages, pending, requests, sends>>
           ELSE /\ aiMessages' = aiMessages \o
                     << [type |-> "user", content |-> message, id |-> toString(now),
                         timestamp |-> toISOString(now), reply |-> sends + 1],
                        [type |-> "ai", content |-> typingText, isTyping |-> TRUE] >>
                /\ requests' = Append(requests, [url |-> "/chat", message |-> message,
                                                 session_id |-> sessionId])
                /\ pending' = Append(pending, [kind |-> "chat", reply |-> sends + 1,
                                               session |-> sessionId])
                /\ sends' = sends + 1
        /\ UNCHANGED <<boardVars, now, timers, sessionId, escalationData, escStore,
                       ops, okCardCalls, lastOp,
                       hrMessages, feedbackData, fbStore, feedbackModal>>

\* sendAIMessage() while fewer than MaxSends messages have been sent
SendAIMessage(raw) == SendAIMessageWithin(raw, MaxSends)

SendChat == \E raw \in ChatInputs : SendAIMessage(raw)

\* The k-th request in flight is a /chat request and ends: callEnhancedAI returns or
\* throws, and sendAIMessage runs on from its await.
ChatSettles(k, outcome) ==
    /\ ~AlertOpen
    /\ k \in 1..Len(pending)
    /\ pending[k].kind = "chat"
    /\ LET errorEntry ==
               [type |-> "ai", content |-> errorText, id |-> toString(now + 1),
                timestamp |-> toISOString(now), isError |-> TRUE,
                reply |-> pending[k].reply]
       IN
       IF outcome.ok
       THEN LET data == outcome.data
                \* reading a property of undefined throws a TypeError
                throwsAtEscalation == "escalation" \notin DOMAIN data
                throwsAtToolsUsed  == "tools_used" \notin DOMAIN data
                entry == [type |-> "ai", content |-> data.response,
                          id |-> toString(now + 1), timestamp |-> toISOString(now),
                          confidence |-> data.confidence_score,
                          reply |-> pending[k].reply]
                \* a property whose value is undefined is left out
                withTools(e) == IF throwsAtToolsUsed THEN e
                                ELSE e @@ [toolsUsed |-> data.tools_used]
                withEscalation(e) == IF throwsAtEscalation THEN e
                                     ELSE e @@ [escalation |-> data.escalation]
            IN
            /\ sessionId' = IF "session_id" \in DOMAIN data
                            THEN [has |-> TRUE, id |-> data.session_id]
                            ELSE sessionId
            /\ aiMessages' = Append(withoutTyping(aiMessages), withEscalation(withTools(entry)))
                   \o (IF throwsAtEscalation \/ throwsAtToolsUsed
                       THEN <<errorEntry>> ELSE << >>)
            /\ timers' = timers
                   \o (IF ~throwsAtEscalation /\ shouldEscalate(data)
                       THEN << [kind |-> "escalation", delay |-> 1000,
                                reply |-> pending[k].reply,
                                content |-> IF "escalation_message" \in DOMAIN data
                                            THEN data.escalation_message
                                            ELSE escalatedText] >>
                       ELSE << >>)
                   \o (IF ~throwsAtEscalation /\ ~throwsAtToolsUsed
                          /\ Len(data.tools_used) > 0
                       THEN << [kind |-> "refresh", delay |-> 2000] >>
                       ELSE << >>)
       ELSE /\ aiMessages' = Append(withoutTyping(aiMessages), errorEntry)
            /\ UNCHANGED <<timers, sessionId>>
    /\ pending' = RemoveAt(pending, k)
    /\ UNCHANGED <<boardVars, now, escalationData, escStore, requests, sends, ops,
                   okCardCalls, lastOp,
                   hrMessages, feedbackData, fbStore, feedbackModal>>

ChatEnds ==
    \E k \in 1..Len(pending) :
        /\ pending[k].kind = "chat"
        /\ \E outcome \in ChatOutcomes(pending[k]) : ChatSettles(k, outcome)

\* the k-th timer set may run: every timer set before it that is due no later has run
Due(k) ==
    /\ k \in 1..Len(timers)
    /\ \A j \in 1..(k - 1) : timers[j].delay > timers[k].delay

\* the callback of setTimeout(..., 1000) in sendAIMessage runs
EscalationTimer(k) ==
    /\ ~AlertOpen
    /\ Due(k)
    /\ timers[k].kind = "escalation"
    /\ aiMessages' = Append(aiMessages,
           [type |-> "ai", content |-> timers[k].content, id |-> toString(now + 2),
            timestamp |-> toISOString(now), isEscalation |-> TRUE,
            reply |-> timers[k].reply])
    /\ timers' = RemoveAt(timers, k)
    /\ UNCHANGED <<boardVars, now, pending, sessionId, escalationData, escStore,
                   requests, sends, ops, okCardCalls, lastOp,
                   hrMessages, feedbackData, fbStore, feedbackModal>>

EscalationNotice == \E k \in 1..Len(timers) : EscalationTimer(k)

\* the callback of setTimeout(() => this.refreshBoardsFromAPI(), 2000) runs;
\* refreshBoardsFromAPI() only logs what the request brings
RefreshTimer(k) ==
    /\ ~AlertOpen
    /\ Due(k)
    /\ timers[k].kind = "refresh"
    /\ requests' = Append(requests, [url |-> "/boards"])
    /\ timers' = RemoveAt(timers, k)
    /\ UNCHANGED <<boardVars, now, aiMessages, pending, sessionId, escalationData,
                   escStore, sends, ops, okCardCalls, lastOp,
                   hrMessages, feedbackData, fbStore, feedbackModal>>

RefreshBoards == \E k \in 1..Len(timers) : RefreshTimer(k)

KW_urgent   == <<"u","r","g","e","n","t">>
KW_critical == <<"c","r","i","t","i","c","a","l">>

D_Urgent ==
    <<"U","R","G","E","N","T"," ","o","u","t","a","g","e">>
D_Critical ==
    <<"a"," ","c","r","i","t","i","c","a","l"," ","b","u","g">>
D_Plain ==
    <<"s","l","o","w"," ","p","a","g","e">>

\* what the user may have typed into #issue-description
IssueDescriptions == {<< >>, T_Blank, D_Urgent, D_Critical, D_Plain}

\* the value of #issue-type: showEscalationModal() sets it to 'technical'
IssueTypes == {"technical"}

\* the description read without trim()
issueDescription_Untrimmed(raw) == raw

\* document.getElementById('issue-description').value.trim()
issueDescription(raw) == trim(raw)

\* the urgency test without toLowerCase()
isSevere_CaseSensitive(description) ==
    includes(description, KW_urgent) \/ includes(description, KW_critical)

\* description.toLowerCase().includes('urgent') || description.toLowerCase().includes('critical')
isSevere(description) ==
    \/ includes(toLowerCase(description), KW_urgent)
    \/ includes(toLowerCase(description), KW_critical)

\* submitEscalation() up to its await, the form holding issueType and raw; an empty
\* description ends in alert('Please provide a description of your issue.')
SubmitEscalationWithin(issueType, raw, most) ==
    \E description \in {issueDescription(raw)} :
        /\ ~AlertOpen
        /\ sends < most
        /\ IF description = << >>
           THEN /\ lastOp' = [op |-> "alert",
                            message |-> "Please provide a description of your issue."]
                /\ UNCHANGED <<escalationData, escStore, requests, pending, sends>>
           ELSE /\ escalationData' = Append(escalationData,
                       [id |-> toString(now), ticketId |-> ticketIdAt(now),
                        issueType |-> issueType, description |-> description,
                        timestamp |-> toISOString(now), status |-> "open",
                        priority |-> "normal", source |-> "ai_assistant",
                        conversationHistory |-> slice(aiMessages, -5)])
                /\ escStore' = stringifyEscalations(escalationData')
                /\ requests' = Append(requests, [url |-> "/api/escalate",
                                                 ticketId |-> ticketIdAt(now)])
                /\ pending' = Append(pending,
                       [kind |-> "escalate", ticket |-> Len(escalationData) + 1,
                        ticketId |-> ticketIdAt(now), description |-> description])
                /\ sends' = sends + 1
                /\ UNCHANGED lastOp
        /\ UNCHANGED <<boardVars, now, aiMessages, timers, sessionId, ops, okCardCalls,
                       hrMessages, feedbackData, fbStore, feedbackModal>>

\* submitEscalation() while fewer than MaxSends messages have been sent
SubmitEscalation(issueType, raw) == SubmitEscalationWithin(issueType, raw, MaxSends)

Submit == \E issueType \in IssueTypes, raw \in IssueDescriptions :
              SubmitEscalation(issueType, raw)

\* The k-th request in flight is an /api/escalate request and ends, fulfilled or
\* rejected: submitEscalation runs on from its await either way.
EscalateSettles(k) ==
    /\ ~AlertOpen
    /\ k \in 1..Len(pending)
    /\ pending[k].kind = "escalate"
    /\ aiMessages' = Append(aiMessages,
           [type |-> "ai",
            content |-> [text |-> ticketTemplate, ticketId |-> pending[k].ticketId],
            id |-> toString(now), timestamp |-> toISOString(now),
            isSystemMessage |-> TRUE, ticket |-> pending[k].ticket])
    /\ timers' = IF isSevere(pending[k].description)
                 THEN Append(timers, [kind |-> "priority", delay |-> 1000,
                                      ticket |-> pending[k].ticket])
                 ELSE timers
    /\ pending' = RemoveAt(pending, k)
    /\ UNCHANGED <<boardVars, now, sessionId, escalationData, escStore, requests, sends,
                   ops, okCardCalls, lastOp,
                   hrMessages, feedbackData, fbStore, feedbackModal>>

EscalateEnds == \E k \in 1..Len(pending) : EscalateSettles(k)

\* the callback of setTimeout(..., 1000) in submitEscalation runs
PriorityTimer(k) ==
    /\ ~AlertOpen
    /\ Due(k)
    /\ timers[k].kind = "priority"
    /\ aiMessages' = Append(aiMessages,
           [type |-> "ai", content |-> [text |-> priorityText], id |-> toString(now),
            timestamp |-> toISOString(now), isSystemMessage |-> TRUE,
            ticket |-> timers[k].ticket])
    /\ timers' = RemoveAt(timers, k)
    /\ UNCHANGED <<boardVars, now, pending, sessionId, escalationData, escStore,
                   requests, sends, ops, okCardCalls, lastOp,
                   hrMessages, feedbackData, fbStore, feedbackModal>>

PriorityNotice == \E k \in 1..Len(timers) : PriorityTimer(k)

NextFull ==
    \/ SendChat
    \/ ChatEnds
    \/ EscalationNotice
    \/ RefreshBoards
    \/ Submit
    \/ EscalateEnds
    \/ PriorityNotice
    \/ DismissAlert

\* the full-featured variant's assistant while the page stays open
SpecFull == Init /\ [][NextFull]_vars

\* what the browser does by itself: a request in flight ends, a timer that is due runs
Background ==
    \/ ChatEnds
    \/ EscalateEnds
    \/ EscalationNotice
    \/ RefreshBoards
    \/ PriorityNotice

\* the same with the event loop's scheduling: a request that can end or a timer that
\* is due gets its turn whenever no dialog blocks the page, however often dialogs
\* open, and the user closes every dialog
SpecFullFair == SpecFull /\ SF_vars(Background) /\ WF_vars(DismissAlert)

-----------------------------------------------------------------------------
(* The feedback dialog and the feedback and escalation records.            *)

thankYouText == "Thank you for your feedback! It helps us improve the AI assistant."

\* renderAIMessages gives an entry the two feedback buttons
HasFeedbackButtons(message) ==
    /\ message.type = "ai"
    /\ ~("isTyping" \in DOMAIN message /\ message.isTyping)
    /\ "id" \in DOMAIN message

\* the data-rating values of the .rating-btn buttons, and parseInt of them
Ratings == {"0", "1"}
parseInt(rating) == IF rating = "1" THEN 1 ELSE 0

\* what the user may have typed into #feedback-text
FeedbackTexts == {<< >>, D_Plain}

stringifyFeedback(f) ==
    JObject(<< <<"id", JString(f.id)>>, <<"messageId", JString(f.messageId)>>,
               <<"rating", [t |-> "literal", v |-> toString(f.rating)]>>,
               <<"feedback", JString(f.feedback)>>,
               <<"timestamp", JString(f.timestamp)>>, <<"type", JString(f.type)>> >>)

\* JSON.stringify(this.feedbackData)
stringifyFeedbacks(fs) == JArray([i \in 1..Len(fs) |-> stringifyFeedback(fs[i])])

\* showFeedbackModal(messageId, initialRating)
showFeedbackModal(messageId, initialRating) ==
    /\ ~AlertOpen
    /\ feedbackModal' = [open |-> TRUE, currentFeedbackMessageId |-> messageId,
                         rating |-> initialRating]
    /\ UNCHANGED <<boardVars, now, aiMessages, timers, pending, sessionId, escalationData,
                   escStore, requests, sends, ops, okCardCalls, lastOp,
                   hrMessages, feedbackData, fbStore>>

\* A click on one of the two feedback buttons of an entry; the dialogs of the page
\* are overlays (.modal), so the buttons are out of reach while one is open.
ClickFeedbackButton ==
    /\ ~feedbackModal.open
    /\ \E i \in 1..Len(aiMessages), initialRating \in Ratings :
          /\ HasFeedbackButtons(aiMessages[i])
          /\ showFeedbackModal(aiMessages[i].id, initialRating)

\* selectRating(rating): a click on a .rating-btn of the open dialog
selectRating(rating) ==
    /\ ~AlertOpen
    /\ feedbackModal.open
    /\ feedbackModal' = [feedbackModal EXCEPT !.rating = rating]
    /\ UNCHANGED <<boardVars, now, aiMessages, timers, pending, sessionId, escalationData,
                   escStore, requests, sends, ops, okCardCalls, lastOp,
                   hrMessages, feedbackData, fbStore>>

SelectRating == \E rating \in Ratings : selectRating(rating)

\* hideFeedbackModal(): the dialog's close or Skip button, or a click beside it
hideFeedbackModal ==
    /\ ~AlertOpen
    /\ feedbackModal.open
    /\ feedbackModal' = [feedbackModal EXCEPT !.open = FALSE,
                                              !.currentFeedbackMessageId = << >>]
    /\ UNCHANGED <<boardVars, now, aiMessages, timers, pending, sessionId, escalationData,
                   escStore, requests, sends, ops, okCardCalls, lastOp,
                   hrMessages, feedbackData, fbStore>>

\* submitFeedback() up to its await, #feedback-text holding raw
submitFeedback(raw) ==
    /\ ~AlertOpen
    /\ feedbackModal.open
    /\ sends < MaxSends
    /\ IF feedbackModal.rating = "none" \/ feedbackModal.currentFeedbackMessageId = << >>
       THEN UNCHANGED <<feedbackData, fbStore, requests, pending, sends>>
       ELSE /\ feedbackData' = Append(feedbackData,
                   [id |-> toString(now),
                    messageId |-> feedbackModal.currentFeedbackMessageId,
                    rating |-> parseInt(feedbackModal.rating), feedback |-> trim(raw),
                    timestamp |-> toISOString(now), type |-> "ai_assistant"])
            /\ fbStore' = stringifyFeedbacks(feedbackData')
            /\ requests' = Append(requests, [url |-> "/api/feedback",
                                             record |-> Len(feedbackData) + 1])
            /\ pending' = Append(pending, [kind |-> "feedback",
                                           record |-> Len(feedbackData) + 1])
            /\ sends' = sends + 1
    /\ UNCHANGED <<boardVars, now, aiMessages, timers, sessionId, escalationData, escStore,
                   ops, okCardCalls, lastOp, hrMessages, feedbackModal>>

SubmitFeedback == \E raw \in FeedbackTexts : submitFeedback(raw)

\* The k-th request in flight is an /api/feedback request and ends, fulfilled with
\* whatever status or rejected: submitFeedback runs on from its await either way.
FeedbackSettles(k) ==
    /\ ~AlertOpen
    /\ k \in 1..Len(pending)
    /\ pending[k].kind = "feedback"
    /\ feedbackModal' = [feedbackModal EXCEPT !.open = FALSE,
                                              !.currentFeedbackMessageId = << >>]
    /\ aiMessages' = Append(aiMessages,
           [type |-> "ai", content |-> [text |-> thankYouText], id |-> toString(now),
            timestamp |-> toISOString(now), isSystemMessage |-> TRUE,
            feedback |-> pending[k].record])
    /\ pending' = RemoveAt(pending, k)
    /\ UNCHANGED <<boardVars, now, timers, sessionId, escalationData, escStore, requests,
                   sends, ops, okCardCalls, lastOp, hrMessages, feedbackData, fbStore>>

FeedbackEnds == \E k \in 1..Len(pending) : FeedbackSettles(k)

\* a handler of something the open feedback dialog covers
Uncovered(A) == ~feedbackModal.open /\ A

NextRecords ==
    \/ Uncovered(Submit)
    \/ EscalateEnds
    \/ PriorityNotice
    \/ DismissAlert
    \/ ClickFeedbackButton
    \/ SelectRating
    \/ hideFeedbackModal
    \/ SubmitFeedback
    \/ FeedbackEnds

\* the feedback and escalation records of the full-featured variant
SpecRecords == Init /\ [][NextRecords]_vars

-----------------------------------------------------------------------------
(* Claims about the full-featured variant's assistant.                     *)

\* the transcript positions of the primary entry of the n-th send's response
PrimaryEntries(n) ==
    {i \in 1..Len(aiMessages) :
        "escalation" \in DOMAIN aiMessages[i] /\ aiMessages[i].reply = n}

\* the transcript positions of the entries marked isEscalation of the n-th send
EscalationEntries(n) ==
    {i \in 1..Len(aiMessages) :
        /\ "isEscalation" \in DOMAIN aiMessages[i]
        /\ aiMessages[i].isEscalation
        /\ aiMessages[i].reply = n}

\* the n-th send was answered by a response with escalation.should_escalate = true
AnsweredEscalating(n) ==
    \E p \in PrimaryEntries(n) : aiMessages[p].escalation.should_escalate

C8_Safe ==
    \A n \in 1..MaxSends :
        /\ Cardinality(EscalationEntries(n)) <= 1
        /\ \A i \in EscalationEntries(n) :
              \E p \in PrimaryEntries(n) :
                  p < i /\ aiMessages[p].escalation.should_escalate

\* C8: for every /chat response with should_escalate = true exactly one entry marked
\* isEscalation is eventually appended for it, after that response's primary entry,
\* and none is ever appended for a response whose should_escalate is false.
C8_OneEscalationNotice ==
    /\ []C8_Safe
    /\ \A n \in 1..MaxSends :
          AnsweredEscalating(n) ~> (Cardinality(EscalationEntries(n)) = 1)

\* two sends have been answered, one escalating and one not, and everything set in
\* motion has run: the first has its notice, the second has none
C8_Witness ==
    /\ pending = << >>
    /\ timers = << >>
    /\ \E n, m \in 1..MaxSends :
          /\ AnsweredEscalating(n)
          /\ Cardinality(EscalationEntries(n)) = 1
          /\ PrimaryEntries(m) # {}
          /\ ~AnsweredEscalating(m)
          /\ EscalationEntries(m) = {}

\* C9: submitEscalation with a description that is empty after trimming appends no
\* escalation record, leaves the 'escalation-data' blob unchanged, issues no remote
\* request and appends no transcript entry.
C9_BlankDescriptionRejected ==
    [][ \A issueType \in IssueTypes, raw \in IssueDescriptions :
           (trim(raw) = << >> /\ SubmitEscalation(issueType, raw))
              => UNCHANGED <<escalationData, escStore, requests, pending, aiMessages,
                             timers>>
      ]_vars

\* a blank submission has just been turned away after an accepted one
C9_Witness ==
    /\ AlertOpen
    /\ Len(escalationData) = 1
    /\ escStore = stringifyEscalations(escalationData)

\* the description holds "urgent" or "critical", in any case
MentionsUrgency(description) ==
    \E w \in {KW_urgent, KW_critical} : includes(toLowerCase(description), w)

\* the transcript positions of the ticket confirmation of the k-th escalation record
TicketEntries(k) ==
    {i \in 1..Len(aiMessages) :
        /\ "ticket" \in DOMAIN aiMessages[i]
        /\ aiMessages[i].ticket = k
        /\ aiMessages[i].content.text = ticketTemplate}

\* the transcript positions of the high-priority notice of the k-th escalation record
NoticeEntries(k) ==
    {i \in 1..Len(aiMessages) :
        /\ "ticket" \in DOMAIN aiMessages[i]
        /\ aiMessages[i].ticket = k
        /\ aiMessages[i].content.text = priorityText}

\* all the transcript entries of the k-th escalation record
SubmissionEntries(k) ==
    {i \in 1..Len(aiMessages) :
        "ticket" \in DOMAIN aiMessages[i] /\ aiMessages[i].ticket = k}

C10_Safe ==
    \A k \in 1..Len(escalationData) :
        /\ Cardinality(TicketEntries(k)) <= 1
        /\ Cardinality(NoticeEntries(k)) <= 1
        /\ SubmissionEntries(k) = TicketEntries(k) \cup NoticeEntries(k)
        /\ \A i \in TicketEntries(k) :
              aiMessages[i].content.ticketId = escalationData[k].ticketId
        /\ \A i \in NoticeEntries(k) :
              /\ MentionsUrgency(escalationData[k].description)
              /\ \E j \in TicketEntries(k) : j < i

C10_Done(k) ==
    /\ Len(escalationData) >= k
    /\ Cardinality(TicketEntries(k)) = 1
    /\ Cardinality(SubmissionEntries(k)) =
          IF MentionsUrgency(escalationData[k].description) THEN 2 ELSE 1

\* C10: an accepted submitEscalation whose description holds "urgent" or "critical"
\* (in any case) eventually has exactly two transcript entries, the ticket confirmation
\* with the record's ticket id and later the high-priority notice; one whose
\* description holds neither has exactly one, the ticket confirmation.
C10_TicketThenPriorityNotice ==
    /\ []C10_Safe
    /\ \A k \in 1..MaxSends : (Len(escalationData) >= k) ~> C10_Done(k)

\* an upper-case URGENT submission and a plain one have run to their end
C10_Witness ==
    /\ pending = << >>
    /\ timers = << >>
    /\ \E k, l \in 1..Len(escalationData) :
          /\ escalationData[k].description = D_Urgent
          /\ C10_Done(k)
          /\ Cardinality(NoticeEntries(k)) = 1
          /\ ~MentionsUrgency(escalationData[l].description)
          /\ C10_Done(l)
          /\ NoticeEntries(l) = {}

\* the transcript positions of the typing indicators
TypingEntries(msgs) ==
    {i \in 1..Len(msgs) : "isTyping" \in DOMAIN msgs[i] /\ msgs[i].isTyping}

\* the transcript positions of the entries marked isError of the n-th send
ErrorEntries(n) ==
    {i \in 1..Len(aiMessages) :
        /\ "isError" \in DOMAIN aiMessages[i]
        /\ aiMessages[i].isError
        /\ aiMessages[i].reply = n}

\* the /chat requests issued so far, and the user entries of the transcript
ChatRequests == {i \in 1..Len(requests) : requests[i].url = "/chat"}
UserEntries  == {i \in 1..Len(aiMessages) : aiMessages[i].type = "user"}

\* one /chat request per sent message, at most one error entry per send
C11_Inv ==
    /\ Cardinality(ChatRequests) = Cardinality(UserEntries)
    /\ \A n \in 1..MaxSends : Cardinality(ErrorEntries(n)) <= 1

\* the step in which the k-th request in flight, a /chat request, fails
C11_Step ==
    \A k \in {i \in 1..Len(pending) : pending[i].kind = "chat"} :
      \A outcome \in ChatOutcomes(pending[k]) :
        (~outcome.ok /\ ChatSettles(k, outcome)) =>
            /\ TypingEntries(aiMessages') = {}
            /\ Len(aiMessages') = Len(aiMessages) - Cardinality(TypingEntries(aiMessages)) + 1
            /\ aiMessages'[Len(aiMessages')].isError
            /\ aiMessages'[Len(aiMessages')].reply = pending[k].reply
            /\ \A i \in 1..(Len(aiMessages') - 1) : "isError" \in DOMAIN aiMessages'[i] =>
                  aiMessages'[i].reply # pending[k].reply
            /\ UNCHANGED <<requests, timers, boards, store, feedbackData, fbStore, feedbackModal,
                           escalationData, escStore>>

\* C11: when the /chat call throws, returns a status that is not ok or a body that
\* cannot be parsed, the send ends with the typing placeholder removed and exactly one
\* entry marked isError appended, the message is not sent again, and the board,
\* feedback and escalation collections are unchanged.
C11_ChatFailureGivesOneErrorEntry == []C11_Inv /\ [][C11_Step]_vars

\* a send has failed while an escalation record exists: its error entry is the
\* newest entry, no placeholder is left and nothing is in flight
C11_Witness ==
    /\ aiMessages # << >>
    /\ "isError" \in DOMAIN aiMessages[Len(aiMessages)]
    /\ TypingEntries(aiMessages) = {}
    /\ pending = << >>
    /\ escalationData # << >>
    /\ Cardinality(ChatRequests) = 1

\* C12 as stated: every /chat request carries the stored session token; the token is
\* null until a response includes a session_id, and once stored it is never reset to
\* null and never replaced, so every later request carries the session_id of the first
\* response that included one.
C12_SessionTokenIsTheFirstReceived ==
    [][ /\ \A i \in ChatRequests : requests'[i] = requests[i]
        /\ \A i \in (1..Len(requests')) \ (1..Len(requests)) :
              requests'[i].url = "/chat" => requests'[i].session_id = sessionId
        /\ (~sessionId.has /\ sessionId'.has) =>
              \E k \in {i \in 1..Len(pending) : pending[i].kind = "chat"} :
                \E outcome \in ChatOutcomes(pending[k]) :
                    /\ outcome.ok
                    /\ "session_id" \in DOMAIN outcome.data
                    /\ ChatSettles(k, outcome)
                    /\ sessionId'.id = outcome.data.session_id
        /\ sessionId.has => sessionId' = sessionId
      ]_vars

-----------------------------------------------------------------------------
(* The HR assistant: sendHRMessage, handleHRQuickAction, callHRAPI and     *)
(* generateHRFallbackResponse.                                             *)

MaxHRSends == 2

KW_leave ==
    <<"l","e","a","v","e">>
KW_vacation ==
    <<"v","a","c","a","t","i","o","n">>
KW_balance ==
    <<"b","a","l","a","n","c","e">>
KW_holiday ==
    <<"h","o","l","i","d","a","y">>
KW_calendar ==
    <<"c","a","l","e","n","d","a","r">>
KW_policy ==
    <<"p","o","l","i","c","y">>
KW_policies ==
    <<"p","o","l","i","c","i","e","s">>
KW_directory ==
    <<"d","i","r","e","c","t","o","r","y">>
KW_employee ==
    <<"e","m","p","l","o","y","e","e">>
KW_contact ==
    <<"c","o","n","t","a","c","t">>

\* the messages of the quick-action buttons
Q_LeaveBalance ==
    <<"W","h","a","t"," ","i","s"," ","m","y"," ","c","u","r","r","e","n","t"," ","l","e","a","v","e"," ","b","a","l","a","n","c","e","?">>
Q_Holidays ==
    <<"W","h","a","t"," ","a","r","e"," ","t","h","e"," ","u","p","c","o","m","i","n","g"," ","c","o","m","p","a","n","y"," ","h","o","l","i","d","a","y","s","?">>
Q_Policies ==
    <<"T","e","l","l"," ","m","e"," ","a","b","o","u","t"," ","H","R"," ","p","o","l","i","c","i","e","s">>
Q_Directory ==
    <<"S","h","o","w"," ","m","e"," ","t","h","e"," ","e","m","p","l","o","y","e","e"," ","d","i","r","e","c","t","o","r","y">>

M_PaddedVacation ==
    <<" ","V","a","c","a","t","i","o","n"," ">>

\* the fallback texts (each named by its first line in the source)
hrLeaveText     == "Your current leave balance:"
hrHolidayText   == "Upcoming company holidays:"
hrPolicyText    == "HR Policies Available:"
hrDirectoryText == "Employee Directory:"
hrDefaultText   == "I'm your HR assistant! I can help you with:"

\* generateHRFallbackResponse(userMessage)
generateHRFallbackResponse(userMessage) ==
    LET lowerMessage == toLowerCase(userMessage)
    IN  IF \/ includes(lowerMessage, KW_leave)
           \/ includes(lowerMessage, KW_vacation)
           \/ includes(lowerMessage, KW_balance)
        THEN hrLeaveText
        ELSE IF includes(lowerMessage, KW_holiday) \/ includes(lowerMessage, KW_calendar)
        THEN hrHolidayText
        ELSE IF includes(lowerMessage, KW_policy) \/ includes(lowerMessage, KW_policies)
        THEN hrPolicyText
        ELSE IF \/ includes(lowerMessage, KW_directory)
                \/ includes(lowerMessage, KW_employee)
                \/ includes(lowerMessage, KW_contact)
        THEN hrDirectoryText
        ELSE hrDefaultText

\* the actions table of handleHRQuickAction; << >> where the table has no entry
actions(action) ==
    CASE action = "leave-balance" -> Q_LeaveBalance
      [] action = "holidays" -> Q_Holidays
      [] action = "policies" -> Q_Policies
      [] action = "directory" -> Q_Directory
      [] OTHER -> << >>

\* the data-action values of the .hr-quick-btn buttons
QuickButtons == {"leave-balance", "holidays", "policies", "directory"}

\* the buttons the user clicks
ClickedButtons == {"policies"}

\* what the user may have typed into #hr-input
HRInputs == {T_Blank, M_PaddedVacation}

\* How the HTTP exchange of a request to the HR service may end: fetch rejects, or
\* resolves with a status and a body that is JSON or not.
NoBody == [detail |-> "Not Found"]
HRExchanges ==
    {[fetch |-> "rejects", ok |-> FALSE, parses |-> FALSE, json |-> NoBody]}
    \cup {[fetch |-> "resolves", ok |-> FALSE, parses |-> TRUE, json |-> b] :
             b \in {[response |-> "Service unavailable"]}}
    \cup {[fetch |-> "resolves", ok |-> TRUE, parses |-> FALSE, json |-> NoBody]}
    \cup {[fetch |-> "resolves", ok |-> TRUE, parses |-> TRUE, json |-> b] :
             b \in {[response |-> "You have 15 vacation days remaining."],
                    [response |-> ""], NoBody}}

\* callHRAPI returning the body whatever the status
callHRAPI_IgnoresStatus(x) ==
    IF x.fetch = "rejects" THEN [threw |-> TRUE, error |-> "fetch rejects"]
    ELSE IF ~x.parses THEN [threw |-> TRUE, error |-> "response.json() rejects"]
    ELSE [threw |-> FALSE, data |-> x.json]

\* callHRAPI(endpoint, options), the exchange ending as x
callHRAPI(x) ==
    IF x.fetch = "rejects" THEN [threw |-> TRUE, error |-> "fetch rejects"]
    ELSE IF ~x.ok THEN [threw |-> TRUE, error |-> "HTTP ${response.status}"]
    ELSE IF ~x.parses THEN [threw |-> TRUE, error |-> "response.json() rejects"]
    ELSE [threw |-> FALSE, data |-> x.json]

\* if (response.response)
hasResponse(data) == "response" \in DOMAIN data /\ data.response # ""

\* what the try block of sendHRMessage throws into its catch: "" when nothing
caught(result) ==
    IF result.threw THEN result.error
    ELSE IF hasResponse(result.data) THEN "" ELSE "Invalid response format"

\* sendHRMessage() up to its await, raw being the value of #hr-input
sendHRMessage(raw) ==
    \E message \in {trim(raw)} :
        /\ sends < MaxHRSends
        /\ IF message = << >>
           THEN UNCHANGED <<hrMessages, pending, requests, sends>>
           ELSE /\ hrMessages' = Append(hrMessages, [type |-> "user", content |-> message,
                                                      reply |-> sends + 1])
                /\ requests' = Append(requests, [url |-> "/chat", message |-> message,
                                                 user_id |-> "emp_001"])
                /\ pending' = Append(pending, [kind |-> "hr", reply |-> sends + 1,
                                               message |-> message])
                /\ sends' = sends + 1
        /\ UNCHANGED <<boardVars, now, aiMessages, timers, sessionId, escalationData,
                       escStore, feedbackData, fbStore, feedbackModal, ops, okCardCalls, lastOp>>

\* A click on #hr-send-btn, or Enter in #hr-input.
SendHR == \E raw \in HRInputs : sendHRMessage(raw)

\* handleHRQuickAction(action)
handleHRQuickAction(action) ==
    /\ actions(action) # << >>
    /\ sendHRMessage(actions(action))

\* A click on a quick-action button.
HRQuickAction == \E action \in ClickedButtons : handleHRQuickAction(action)

\* The k-th request in flight is the HR assistant's and its exchange ends as x:
\* sendHRMessage runs on from its await, through its try or its catch, to its end.
HRSettles(k, x) ==
    /\ k \in 1..Len(pending)
    /\ pending[k].kind = "hr"
    /\ pending' = RemoveAt(pending, k)
    /\ \E result \in {callHRAPI(x)} :
          /\ lastOp' = [op |-> "sendHRMessage", caught |-> caught(result),
                        promise |-> "fulfilled"]
          /\ hrMessages' = Append(hrMessages,
                 [type |-> "hr",
                  content |-> IF caught(result) = ""
                              THEN result.data.response
                              ELSE generateHRFallbackResponse(pending[k].message),
                  reply |-> pending[k].reply])
    /\ UNCHANGED <<boardVars, now, aiMessages, timers, sessionId, escalationData,
                   escStore, feedbackData, fbStore, feedbackModal, requests, sends, ops, okCardCalls>>

HREnds == \E k \in 1..Len(pending), x \in HRExchanges : HRSettles(k, x)

NextHR ==
    \/ SendHR
    \/ HRQuickAction
    \/ HREnds

\* the HR assistant while the page stays open
SpecHR == Init /\ [][NextHR]_vars

\* the same, every exchange with the HR service ending at some time
SpecHRFair == SpecHR /\ WF_vars(HREnds)

-----------------------------------------------------------------------------
(* Claims about the HR assistant.                                          *)

\* the transcript positions of the n-th message's entries of a type
HREntries(n, type) ==
    {i \in 1..Len(hrMessages) : hrMessages[i].type = type /\ hrMessages[i].reply = n}

HRFallbackTexts == {hrLeaveText, hrHolidayText, hrPolicyText, hrDirectoryText, hrDefaultText}

\* C18, in every state: each message sent has one user entry, no hr entry while its
\* request is in flight and one hr entry, further down the transcript, once it has
\* ended; the handler's promise was fulfilled.
C18_Safe ==
    /\ \A n \in 1..sends :
          /\ Cardinality(HREntries(n, "user")) = 1
          /\ Cardinality(HREntries(n, "hr")) =
                IF \E k \in 1..Len(pending) : pending[k].reply = n THEN 0 ELSE 1
          /\ \A u \in HREntries(n, "user"), h \in HREntries(n, "hr") : u < h
    /\ \A i \in 1..Len(hrMessages) : hrMessages[i].reply \in 1..sends
    /\ lastOp.op = "sendHRMessage" => lastOp.promise = "fulfilled"

\* C18, in every step that ends an exchange: the entry appended is the only change of
\* the transcript; it holds the fallback text for the message when fetch rejected, the
\* status was not 2xx, the body was not JSON or had no response field, and the
\* service's text when the service sent one.
C18_Step ==
    \A k \in 1..Len(pending), x \in HRExchanges :
       HRSettles(k, x) =>
          /\ Len(hrMessages') = Len(hrMessages) + 1
          /\ SubSeq(hrMessages', 1, Len(hrMessages)) = hrMessages
          /\ hrMessages'[Len(hrMessages')].type = "hr"
          /\ hrMessages'[Len(hrMessages')].reply = pending[k].reply
          /\ IF x.fetch = "rejects" \/ ~x.ok \/ ~x.parses \/ "response" \notin DOMAIN x.json
             THEN /\ hrMessages'[Len(hrMessages')].content
                        = generateHRFallbackResponse(pending[k].message)
                  /\ hrMessages'[Len(hrMessages')].content \in HRFallbackTexts
             ELSE x.json.response # "" =>
                     hrMessages'[Len(hrMessages')].content = x.json.response

\* C18: the HR assistant works without its service: every non-empty message gets
\* exactly one hr entry, after its user entry, eventually, whether the call throws,
\* returns a status that is not 2xx or returns a body without a response field; the
\* entry holds the service's text if there is one and the local fallback text
\* otherwise, and the handler ends normally.
C18_OneHREntryPerMessage ==
    /\ []C18_Safe
    /\ [][C18_Step]_vars
    /\ \A n \in 1..MaxHRSends :
          (sends >= n) ~> (Cardinality(HREntries(n, "hr")) = 1)

\* two messages answered, the second before the first, one by the service and one by
\* the fallback for its keyword after a status that was not 2xx
C18_Witness ==
    /\ sends = 2
    /\ pending = << >>
    /\ lastOp.op = "sendHRMessage"
    /\ lastOp.caught = "HTTP ${response.status}"
    /\ \E h1 \in HREntries(1, "hr"), h2 \in HREntries(2, "hr") :
          /\ h2 < h1
          /\ hrMessages[h1].content = hrLeaveText
          /\ hrMessages[h2].content \notin HRFallbackTexts

-----------------------------------------------------------------------------
(* Claims about the board handlers.                                        *)

\* C13: when the user declines the confirmation of deleteBoardConfirm or
\* deleteListConfirm, the board collection and the 'trello-boards' blob are unchanged:
\* for every board and list on show, for the handler as a function of the state and
\* for the step the click makes.
C13_DeclinedDeleteChangesNothing ==
    /\ [](\A i \in 1..Len(boards) :
             /\ deleteBoardConfirm(App, boards[i].id, FALSE) = App
             /\ \A j \in 1..Len(boards[i].lists) :
                   deleteListConfirm(App, boards[i].id, boards[i].lists[j].id, FALSE) = App)
    /\ [][ /\ \A i \in 1..Len(boards) : DeleteBoard(i, FALSE) => UNCHANGED boardVars
           /\ \A i \in 1..Len(boards) : \A j \in 1..Len(boards[i].lists) :
                 DeleteList(i, j, FALSE) => UNCHANGED boardVars
         ]_vars

\* a collection changed since startup in which a confirmed click would delete a board
\* or a list with cards, and a declined one is possible
C13_Witness ==
    /\ ops >= 1
    /\ boards # SampleData
    /\ \E i \in 1..Len(boards) : \E j \in 1..Len(boards[i].lists) :
          /\ boards[i].lists[j].cards # << >>
          /\ deleteListConfirm(App, boards[i].id, boards[i].lists[j].id, TRUE) # App
          /\ deleteBoardConfirm(App, boards[i].id, TRUE) # App
          /\ ENABLED DeleteList(i, j, FALSE)

\* every id in use somewhere in the collection, and one in use nowhere
KnownBoardIds == {boards[i].id : i \in 1..Len(boards)} \cup {StaleBoardId}
KnownListIds ==
    UNION {{boards[i].lists[j].id : j \in 1..Len(boards[i].lists)} : i \in 1..Len(boards)}
    \cup {StaleListId}
KnownCardIds ==
    UNION {UNION {{boards[i].lists[j].cards[k].id : k \in 1..Len(boards[i].lists[j].cards)} :
                  j \in 1..Len(boards[i].lists)} : i \in 1..Len(boards)}
    \cup {StaleCardId}

\* C14, the handlers as functions of the state: with ids that do not resolve (unknown,
\* or known under another board or list) createList, createCard, updateCard and a
\* confirmed deleteListConfirm return the board collection and the blob as they were,
\* called directly or through the modal's confirm button.
C14_Inv ==
    \A b \in KnownBoardIds :
       IF ~ResolvesBoard(boards, b)
       THEN /\ createList(App, b, T_DraftReport, now) = App
            /\ handleModalConfirm(App, "list", [boardId |-> b], M_PaddedDraft, now) = App
            /\ \A l \in KnownListIds :
                  /\ deleteListConfirm(App, b, l, TRUE) = App
                  /\ createCard(App, b, l, T_DraftReport, FALSE, now) = App
                  /\ createCard(App, b, l, T_DraftReport, TRUE, now) = App
                  /\ \A c \in KnownCardIds :
                        updateCard(App, b, l, c, T_DraftReport) = App
       ELSE \A l \in KnownListIds :
               IF ~ResolvesList(boards, b, l)
               THEN /\ createCard(App, b, l, T_DraftReport, FALSE, now) = App
                    /\ createCard(App, b, l, T_DraftReport, TRUE, now) = App
                    /\ handleModalConfirm(App, "card", [boardId |-> b, listId |-> l],
                                          M_PaddedDraft, now) = App
                    /\ \A c \in KnownCardIds :
                          updateCard(App, b, l, c, T_DraftReport) = App
               ELSE \A c \in KnownCardIds :
                       ~ResolvesCard(boards, b, l, c) =>
                          /\ updateCard(App, b, l, c, T_DraftReport) = App
                          /\ handleModalConfirm(App, "edit-card",
                                [boardId |-> b, listId |-> l, cardId |-> c],
                                M_PaddedDraft, now) = App

\* C14: createList, createCard, updateCard and deleteListConfirm with ids that do not
\* resolve leave the board collection and the persisted blob unchanged and end
\* normally: as functions of the state, and in the steps, where a handler run that
\* does not count as an operation changes neither.
C14_UnresolvedIdsAreNoOps ==
    /\ []C14_Inv
    /\ [][ (ops' = ops /\ boards # << >>) => UNCHANGED boardVars ]_vars

\* two boards with lists: a list id known under one board does not resolve under the
\* other, and a card id known in one list does not resolve in another
C14_Witness ==
    /\ Len(boards) >= 2
    /\ \E i, k \in 1..Len(boards) : \E j \in 1..Len(boards[i].lists) :
          /\ i # k
          /\ ~ResolvesList(boards, boards[k].id, boards[i].lists[j].id)
          /\ createCard(App, boards[k].id, boards[i].lists[j].id, T_DraftReport, FALSE, now)
                = App
    /\ \E c \in KnownCardIds \ {StaleCardId} : \E l \in KnownListIds \ {StaleListId} :
          ~ResolvesCard(boards, boards[1].id, l, c) /\ ResolvesList(boards, boards[1].id, l)


\* C16: at the end of every handler that has run to completion, the value under
\* 'trello-boards' is the serialization of the in-memory board collection: no change of
\* the boards is left unsaved.
C16_StoreIsSerialization == store = stringify(boards)

\* a collection changed by several handlers, holding a card made through the modal
C16_Witness ==
    /\ ops >= 2
    /\ boards # SampleData
    /\ \E i \in 1..Len(boards) : \E j \in 1..Len(boards[i].lists) :
          \E k \in 1..Len(boards[i].lists[j].cards) :
             /\ "aiSuggested" \in DOMAIN boards[i].lists[j].cards[k]
             /\ ~boards[i].lists[j].cards[k].aiSuggested
    /\ store = stringify(boards)

\* where the lists and the cards of the collection are
ListPlaces ==
    UNION {{<<i, j>> : j \in 1..Len(boards[i].lists)} : i \in 1..Len(boards)}
CardPlaces ==
    UNION {{<<q[1], q[2], k>> : k \in 1..Len(boards[q[1]].lists[q[2]].cards)} :
           q \in ListPlaces}

\* C17: identifiers are never shared: in every state all board ids are pairwise
\* distinct, all list ids are pairwise distinct and all card ids are pairwise distinct,
\* also when the clock returns the same reading for consecutive creations.
C17_IdsPairwiseDistinct ==
    /\ \A i, k \in 1..Len(boards) : i # k => boards[i].id # boards[k].id
    /\ \A p, q \in ListPlaces :
          p # q => boards[p[1]].lists[p[2]].id # boards[q[1]].lists[q[2]].id
    /\ \A p, q \in CardPlaces :
          p # q => boards[p[1]].lists[p[2]].cards[p[3]].id
                      # boards[q[1]].lists[q[2]].cards[q[3]].id

\* a is what is left of b after taking some elements out: the rest in b's order
RECURSIVE Survivors(_, _)
Survivors(a, b) ==
    IF a = << >> THEN TRUE
    ELSE IF b = << >> THEN FALSE
    ELSE IF Head(a) = Head(b) THEN Survivors(Tail(a), Tail(b))
    ELSE Survivors(a, Tail(b))

\* new is old with one element more, at the end
GrownAtEnd(old, new) == Len(new) = Len(old) + 1 /\ SubSeq(new, 1, Len(old)) = old

\* the cards of a list before and after a handler: one more at the end, or the same
\* cards at the same places (a title may differ)
CardsKeepOrder(old, new) ==
    \/ GrownAtEnd(old, new)
    \/ /\ Len(new) = Len(old)
       /\ \A k \in 1..Len(old) : new[k].id = old[k].id

\* the lists of a board before and after a handler
ListsKeepOrder(old, new) ==
    \/ GrownAtEnd(old, new) /\ new[Len(new)].cards = << >>
    \/ Len(new) < Len(old) /\ Survivors(new, old)
    \/ /\ Len(new) = Len(old)
       /\ \A j \in 1..Len(old) :
             new[j].id = old[j].id /\ CardsKeepOrder(old[j].cards, new[j].cards)

\* the board collection before and after a handler
BoardsKeepOrder(old, new) ==
    \/ GrownAtEnd(old, new) /\ new[Len(new)].lists = << >>
    \/ Len(new) < Len(old) /\ Survivors(new, old)
    \/ /\ Len(new) = Len(old)
       /\ \A i \in 1..Len(old) :
             new[i].id = old[i].id /\ ListsKeepOrder(old[i].lists, new[i].lists)

\* C19: insertion order is the only ordering and every operation keeps it: a created
\* board, list or card comes last in its sequence, updateCard moves no card, and a
\* deletion leaves the surviving boards, lists and cards in their order.  (A reload of
\* an empty collection installs the seed data and is no operation on the boards; a
\* step in which the modal made a card is one that counts in okCardCalls.)
C19_InsertionOrderKept ==
    /\ [][ (boards = << >> /\ Restart) \/ BoardsKeepOrder(boards, boards') ]_vars
    /\ [][ (okCardCalls' # okCardCalls)
              => /\ Len(boards') = Len(boards)
                 /\ \E q \in ListPlaces :
                       /\ Len(boards'[q[1]].lists) = Len(boards[q[1]].lists)
                       /\ GrownAtEnd(boards[q[1]].lists[q[2]].cards,
                                     boards'[q[1]].lists[q[2]].cards)
                       /\ \E raw \in ModalInputs :
                             LET cards == boards'[q[1]].lists[q[2]].cards
                             IN  cards[Len(cards)].title = trim(raw) ]_vars

\* the middle list of the first board was deleted, its neighbours are left in their
\* order, and the first list has a card more than the seed, the new one last
C19_Witness ==
    /\ Len(boards) >= 1
    /\ Len(boards[1].lists) = 2
    /\ boards[1].lists[1].id = ListId(1)
    /\ boards[1].lists[2].id = ListId(3)
    /\ Len(boards[1].lists[1].cards) = 3
    /\ boards[1].lists[1].cards[1].id = CardId(1)
    /\ boards[1].lists[1].cards[2].id = CardId(2)
    /\ boards[1].lists[1].cards[3].id = CardId(now)

-----------------------------------------------------------------------------
(* Cards made through the modal and by the assistant's createAITask, with  *)
(* edits, deletions and reloads.                                           *)

MaxCardOps == 2

\* a handler of the user's, within this specification's bound on what the user does
CardOp(A) == ops + sends < MaxCardOps /\ A

\* The user asks the assistant for a task.
AskForTask == \E raw \in {M_AddDeploy} : SendAIMessageLocal(raw)

NextCards ==
    \/ Tick
    \/ CardOp(ConfirmCard)
    \/ CardOp(ConfirmEditCard)
    \/ CardOp(ClickDeleteBoard)
    \/ CardOp(ClickDeleteList)
    \/ CardOp(AskForTask)
    \/ LocalTimer
    \/ Restart

SpecCards == Init /\ [][NextCards]_vars

\* card.aiSuggested as the code reads it: true, false, or undefined
Flag(card) ==
    IF "aiSuggested" \in DOMAIN card
    THEN IF card.aiSuggested THEN "true" ELSE "false"
    ELSE "undefined"

\* the cards of a list before and after a step: one more at the end, or the same cards
\* at the same places with the flags they had
CardsKeepFlag(old, new) ==
    \/ GrownAtEnd(old, new)
    \/ /\ Len(new) = Len(old)
       /\ \A k \in 1..Len(old) : new[k].id = old[k].id /\ Flag(new[k]) = Flag(old[k])

ListsKeepFlag(old, new) ==
    \/ GrownAtEnd(old, new) /\ new[Len(new)].cards = << >>
    \/ Len(new) < Len(old) /\ Survivors(new, old)
    \/ /\ Len(new) = Len(old)
       /\ \A j \in 1..Len(old) :
             new[j].id = old[j].id /\ CardsKeepFlag(old[j].cards, new[j].cards)

BoardsKeepFlag(old, new) ==
    \/ GrownAtEnd(old, new) /\ new[Len(new)].lists = << >>
    \/ Len(new) < Len(old) /\ Survivors(new, old)
    \/ /\ Len(new) = Len(old)
       /\ \A i \in 1..Len(old) :
             new[i].id = old[i].id /\ ListsKeepFlag(old[i].lists, new[i].lists)

\* the card a step has added at the end of a list, if it has added one
AddedCards ==
    {boards'[i].lists[j].cards[Len(boards'[i].lists[j].cards)] :
        <<i, j>> \in {q \in ListPlaces :
                        /\ Len(boards') = Len(boards)
                        /\ Len(boards'[q[1]].lists) = Len(boards[q[1]].lists)
                        /\ GrownAtEnd(boards[q[1]].lists[q[2]].cards,
                                      boards'[q[1]].lists[q[2]].cards)}}

\* C20: a card's aiSuggested flag is fixed when the card is made: every step (an edit
\* of this or another card, a creation or deletion elsewhere, a reload of the saved
\* collection) leaves each card that is still there with the flag it had; a card made
\* through the modal has it false and a card made by createAITask has it true.
\* (A step in which the modal made a card is one that counts in okCardCalls; a step in
\* which createAITask made one is a timer callback that changes the boards.)
C20_FlagFixedAtCreation ==
    /\ [][ (boards = << >> /\ Restart) \/ BoardsKeepFlag(boards, boards') ]_vars
    /\ [](boards # << >> => startup(store).boards = boards)
    /\ [][ (okCardCalls' # okCardCalls)
              => AddedCards # {} /\ \A card \in AddedCards : Flag(card) = "false" ]_vars
    /\ [][ (boards' # boards /\ Len(timers') < Len(timers) /\ aiMessages' # << >>)
              => AddedCards # {} /\ \A card \in AddedCards : Flag(card) = "true" ]_vars

\* the first list holds the seed's two cards, which have no flag, and then the card
\* the assistant made, which has since been given another title through the modal
\* and still has its flag
C20_Witness ==
    /\ Len(boards) >= 1
    /\ Len(boards[1].lists) >= 1
    /\ Len(boards[1].lists[1].cards) = 3
    /\ Flag(boards[1].lists[1].cards[1]) = "undefined"
    /\ Flag(boards[1].lists[1].cards[2]) = "undefined"
    /\ boards[1].lists[1].cards[3].id[2] >= ClockStart
    /\ boards[1].lists[1].cards[3].title = trim(M_PaddedDraft)
    /\ Flag(boards[1].lists[1].cards[3]) = "true"
    /\ lastOp.op = "generateAIResponse"
    /\ ops = 1

-----------------------------------------------------------------------------
(* Claims about startup.                                                   *)

\* C15: a page load that finds the 'trello-boards' key absent, or holding a value that
\* fails to parse, ends with the application running on the seed sample data, which
\* is also what the store then holds.
C15_StartupToleratesBadBlob ==
    [][ (LoadPage /\ (store = Null \/ SyntaxError(store)))
           => /\ lastOp' = Idle
              /\ boards' = SampleData
              /\ store' = stringify(SampleData) ]_vars

-----------------------------------------------------------------------------
(* Claims about the feedback and escalation records.                       *)

\* the requests issued so far to a url
RequestsTo(url) == {i \in 1..Len(requests) : requests[i].url = url}

\* the blob holds one object per record, in order, with the record's value under key
Persisted(blob, records, key) ==
    IF records = << >> THEN blob = Null
    ELSE /\ blob # Null
         /\ Len(blob.v) = Len(records)
         /\ \A i \in 1..Len(records) : Member(blob.v[i], key).v = records[i][key]

\* C21, in every state: each POST issued has its record in the local collection and
\* in the persisted blob, whether the POST is still in flight or has ended, and the
\* transcript shows no error entry.
C21_Inv ==
    /\ Cardinality(RequestsTo("/api/escalate")) = Len(escalationData)
    /\ Cardinality(RequestsTo("/api/feedback")) = Len(feedbackData)
    /\ Persisted(escStore, escalationData, "ticketId")
    /\ Persisted(escStore, escalationData, "description")
    /\ Persisted(fbStore, feedbackData, "messageId")
    /\ Persisted(fbStore, feedbackData, "feedback")
    /\ \A i \in 1..Len(aiMessages) : "isError" \notin DOMAIN aiMessages[i]

\* C21, in every step: the records already there stay as they are, and the step in
\* which a POST ends (with whatever outcome) changes neither the collections nor the
\* blobs and adds one entry to the transcript, which is no error entry.
C21_Step ==
    /\ Len(escalationData') >= Len(escalationData)
    /\ SubSeq(escalationData', 1, Len(escalationData)) = escalationData
    /\ Len(feedbackData') >= Len(feedbackData)
    /\ SubSeq(feedbackData', 1, Len(feedbackData)) = feedbackData
    /\ Len(pending') < Len(pending) =>
          /\ UNCHANGED <<escalationData, escStore, feedbackData, fbStore>>
          /\ Len(aiMessages') = Len(aiMessages) + 1
          /\ aiMessages'[Len(aiMessages')].isSystemMessage
          /\ aiMessages'[Len(aiMessages')].content.text \in {ticketTemplate, thankYouText}

\* C21: submitFeedback and submitEscalation append the record to the local collection
\* and write the collection to localStorage in the step that issues the POST, and
\* whatever becomes of the POST the record stays in the collection and in the blob
\* and no error shows in the transcript.
C21_LocalWriteComesFirstAndStays == []C21_Inv /\ [][C21_Step]_vars

\* an escalation and a feedback on its confirmation, both POSTs ended
C21_Witness ==
    /\ Len(escalationData) = 1
    /\ Len(feedbackData) = 1
    /\ pending = << >>
    /\ \E i, j \in 1..Len(aiMessages) :
          /\ i < j
          /\ aiMessages[i].content.text = ticketTemplate
          /\ aiMessages[j].content.text = thankYouText
          /\ feedbackData[1].messageId = aiMessages[i].id


\* ---- a longer conversation with the assistant, then escalations ----

MaxHistorySends == 3

\* the user sends "hello" once the assistant has answered all there was to answer
AskHello ==
    /\ timers = << >>
    /\ pending = << >>
    /\ SendAIMessageWithin(M_Hello, MaxHistorySends)

\* a /chat request in flight ends with the body that asks for an escalation
\* and names a tool
ChatAnswers ==
    \E k \in {j \in 1..Len(pending) : pending[j].kind = "chat"} :
        \E outcome \in {o \in ChatOutcomes(pending[k]) :
                           o.ok /\ Len(o.data.tools_used) > 0} :
            ChatSettles(k, outcome)

\* the user submits the escalation form with an urgent description
SubmitUrgent == SubmitEscalationWithin("technical", D_Urgent, MaxHistorySends)

NextHistory ==
    \/ AskHello
    \/ ChatAnswers
    \/ EscalationNotice
    \/ RefreshBoards
    \/ SubmitUrgent
    \/ EscalateEnds
    \/ PriorityNotice

SpecHistory == Init /\ [][NextHistory]_vars

\* the last min(5, n) entries of a transcript of n entries, in order
LastFive(msgs) ==
    [i \in 1..(IF Len(msgs) < 5 THEN Len(msgs) ELSE 5) |->
        msgs[Len(msgs) - (IF Len(msgs) < 5 THEN Len(msgs) ELSE 5) + i]]

C22_Inv ==
    /\ \A k \in 1..Len(escalationData) :
           /\ escalationData[k].status = "open"
           /\ escalationData[k].priority = "normal"
    /\ escalationData # << >> =>
           /\ escStore.t = "array"
           /\ Len(escStore.v) = Len(escalationData)
           /\ \A k \in 1..Len(escalationData) :
                  /\ Member(escStore.v[k], "status") = JString("open")
                  /\ Member(escStore.v[k], "priority") = JString("normal")
                  /\ Member(escStore.v[k], "conversationHistory")
                         = JArray([i \in 1..Len(escalationData[k].conversationHistory) |->
                                      stringifyMessage(escalationData[k].conversationHistory[i])])

C22_Step ==
    /\ SubSeq(escalationData', 1, Len(escalationData)) = escalationData
    /\ Len(escalationData') > Len(escalationData) =>
           /\ Len(escalationData') = Len(escalationData) + 1
           /\ escalationData'[Len(escalationData')].conversationHistory
                  = LastFive(aiMessages)
    /\ escalationData # << >> =>
           SubSeq(escStore'.v, 1, Len(escalationData)) = escStore.v

\* C22: every escalation record is stored, in memory and in the 'escalation-data'
\* blob, with status 'open' and priority 'normal'; the record a submission adds
\* carries as conversationHistory the last min(5, n) entries of the assistant's
\* transcript of n entries as it stands when the form is submitted, in order; and
\* no later step, the ones that add transcript entries such as the high-priority
\* notice included, changes a record that is already stored.
C22_RecordsAreOpenNormalWithLastFive == []C22_Inv /\ [][C22_Step]_vars

\* a record submitted when the transcript held more than five entries (its history
\* has five and does not start where the transcript starts), whose high-priority
\* notice has since been added to the transcript
C22_Witness ==
    \E k \in 1..Len(escalationData) :
        /\ Len(escalationData[k].conversationHistory) = 5
        /\ escalationData[k].conversationHistory[1] # aiMessages[1]
        /\ escalationData[k].conversationHistory[1] = aiMessages[2]
        /\ NoticeEntries(k) # {}


\* ---- the steps of a send to the assistant ----

\* the input holds nothing but white space
IsBlank(raw) == \A i \in 1..Len(raw) : raw[i] \in WhiteSpace

\* the step adds a /chat request
ChatRequestAdded ==
    /\ Len(requests') = Len(requests) + 1
    /\ requests'[Len(requests')].url = "/chat"

C23_Inv ==
    /\ \A k \in 1..Len(pending) : pending[k].kind = "chat" =>
           /\ PrimaryEntries(pending[k].reply) = {}
           /\ ErrorEntries(pending[k].reply) = {}
    /\ \A n \in 1..sends :
           \A i \in PrimaryEntries(n) \cup ErrorEntries(n) :
               \E j \in 1..(i - 1) :
                   aiMessages[j].type = "user" /\ aiMessages[j].reply = n
    /\ \A raw \in ChatInputs :
           IsBlank(raw) => ~ENABLED (SendAIMessage(raw) /\ vars' # vars)

C23_Step ==
    /\ ChatRequestAdded =>
           /\ Len(aiMessages') = Len(aiMessages) + 2
           /\ SubSeq(aiMessages', 1, Len(aiMessages)) = aiMessages
           /\ aiMessages'[Len(aiMessages') - 1].type = "user"
           /\ aiMessages'[Len(aiMessages') - 1].content = requests'[Len(requests')].message
           /\ ~IsBlank(aiMessages'[Len(aiMessages') - 1].content)
           /\ Len(aiMessages') \in TypingEntries(aiMessages')
           /\ Len(pending') = Len(pending) + 1
    /\ Len(SelectSeq(aiMessages', LAMBDA m : m.type = "user"))
           # Len(SelectSeq(aiMessages, LAMBDA m : m.type = "user")) => ChatRequestAdded

\* C23: in the full-featured variant the step of a send with a non-empty message
\* appends the user entry and, after it, the typing indicator, and issues the /chat
\* request; the response entry or error entry of a send is never in the transcript
\* while its request is in flight, and comes after the send's user entry; a send
\* whose input is blank after trimming changes nothing at all and issues no request.
C23_SendAppendsUserThenTyping == []C23_Inv /\ [][C23_Step]_vars

\* the first send has been answered while the second is still in flight, its
\* typing indicator the newest entry
C23_Witness ==
    /\ PrimaryEntries(1) # {}
    /\ \E k \in 1..Len(pending) : pending[k].kind = "chat" /\ pending[k].reply = 2
    /\ Len(aiMessages) \in TypingEntries(aiMessages)


\* ---- the assistant service answering with any JSON body ----

\* 2xx bodies that lack the escalation field or the tools_used field
PartialResponses(req) ==
    { [response |-> "I created the card.", confidence_score |-> <<"0",".","8">>,
       tools_used |-> <<"create_card">>],
      [response |-> "Someone should look at this.", confidence_score |-> <<"0",".","3">>,
       escalation |-> [should_escalate |-> TRUE, escalation_type |-> "human"]] }

\* how the /chat request req ends when the service may leave fields out
BodyOutcomes(req) ==
    ChatOutcomes(req) \cup {[ok |-> TRUE, data |-> d] : d \in PartialResponses(req)}

ChatEndsWithAnyBody ==
    \E k \in {j \in 1..Len(pending) : pending[j].kind = "chat"} :
        \E outcome \in BodyOutcomes(pending[k]) : ChatSettles(k, outcome)

NextBodies ==
    \/ SendChat
    \/ ChatEndsWithAnyBody
    \/ EscalationNotice
    \/ RefreshBoards

SpecBodies == Init /\ [][NextBodies]_vars

\* the transcript positions of the entries that show the response to the n-th send
ResponseEntries(n) ==
    {i \in 1..Len(aiMessages) :
        /\ aiMessages[i].type = "ai"
        /\ "reply" \in DOMAIN aiMessages[i]
        /\ aiMessages[i].reply = n
        /\ "isError" \notin DOMAIN aiMessages[i]
        /\ "isEscalation" \notin DOMAIN aiMessages[i]}

\* the n-th send has been made and its /chat request has ended
Settled(n) ==
    /\ \E i \in UserEntries : aiMessages[i].reply = n
    /\ \A k \in 1..Len(pending) : pending[k].kind = "chat" => pending[k].reply # n

\* C28 as stated: every send whose /chat request has ended has exactly one entry in
\* the transcript that is its response entry or its error entry, never both,
\* whatever JSON body the 2xx response carried.
C28_OneResponseOrErrorPerSend ==
    \A n \in 1..sends :
        Settled(n) => Cardinality(ResponseEntries(n)) + Cardinality(ErrorEntries(n)) = 1

\* the timers of setTimeout(() => this.refreshBoardsFromAPI(), 2000) still to run
RefreshTimers(ts) == {i \in 1..Len(ts) : ts[i].kind = "refresh"}

\* the step in which a /chat request ends and its response is shown: the entry
\* appended after the typing indicators are taken out is not an error entry
ResponseShown ==
    /\ Len(pending') < Len(pending)
    /\ "isError" \notin DOMAIN aiMessages'[Len(withoutTyping(aiMessages)) + 1]

\* C24 as stated: a refresh of the board listing is scheduled in the step that shows
\* a /chat response exactly when the response's tools_used list is non-empty, and no
\* step of the chat send, the escalation notice or the refresh changes the boards
\* in memory or the stored board blob.
C24_RefreshIffToolsUsed ==
    [][/\ ResponseShown =>
             LET e == aiMessages'[Len(withoutTyping(aiMessages)) + 1]
             IN  (Cardinality(RefreshTimers(timers')) = Cardinality(RefreshTimers(timers)) + 1)
                     <=> ("toolsUsed" \in DOMAIN e /\ Len(e.toolsUsed) > 0)
        /\ UNCHANGED boardVars]_vars


\* the /chat requests in flight
PendingChats == {k \in 1..Len(pending) : pending[k].kind = "chat"}

\* C29 as stated: the transcript holds as many typing indicators as there are /chat
\* requests in flight, and so none exactly when no request is in flight.
C29_OneTypingEntryPerPendingChat ==
    /\ Cardinality(TypingEntries(aiMessages)) = Cardinality(PendingChats)
    /\ TypingEntries(aiMessages) = {} <=> PendingChats = {}


\* the entries of the HR transcript of one type, in transcript order
HREntriesInOrder(type) == SelectSeq(hrMessages, LAMBDA m : m.type = type)

\* C30 as stated: in the HR transcript the n-th 'hr' entry is the reply to the n-th
\* 'user' entry, however the sends (typed or by quick action) and the ends of their
\* requests interleave.
C30_NthReplyAnswersNthQuestion ==
    \A n \in 1..Len(HREntriesInOrder("hr")) :
        HREntriesInOrder("hr")[n].reply = HREntriesInOrder("user")[n].reply


\* ---- editing a card ----

\* card `new` is card `old` with only its title replaced by title
OnlyTitleReplaced(old, new, title) ==
    /\ DOMAIN new = DOMAIN old
    /\ new.title = title
    /\ \A f \in DOMAIN old \ {"title"} : new[f] = old[f]

\* the collection `new` is the collection `old` but for the title of the card at
\* place q (board, list and card index), which is title
OnlyCardRetitled(old, new, q, title) ==
    /\ Len(new) = Len(old)
    /\ \A i \in 1..Len(old) :
          /\ new[i].id = old[i].id
          /\ new[i].title = old[i].title
          /\ Len(new[i].lists) = Len(old[i].lists)
          /\ \A j \in 1..Len(old[i].lists) :
                /\ new[i].lists[j].id = old[i].lists[j].id
                /\ new[i].lists[j].title = old[i].lists[j].title
                /\ Len(new[i].lists[j].cards) = Len(old[i].lists[j].cards)
                /\ \A k \in 1..Len(old[i].lists[j].cards) :
                      IF <<i, j, k>> = q
                      THEN OnlyTitleReplaced(old[i].lists[j].cards[k],
                                             new[i].lists[j].cards[k], title)
                      ELSE new[i].lists[j].cards[k] = old[i].lists[j].cards[k]
    /\ TotalLists(new) = TotalLists(old)
    /\ TotalCards(new) = TotalCards(old)

\* the titles the modal can hand to updateCard
EditTitles == {trim(raw) : raw \in ModalInputs} \ {<< >>}

C26_Inv ==
    \A q \in CardPlaces, title \in EditTitles :
        LET card == boards[q[1]].lists[q[2]].cards[q[3]]
            r == updateCard(App, boards[q[1]].id, boards[q[1]].lists[q[2]].id, card.id, title)
        IN  \E m \in CardPlaces :
               /\ boards[m[1]].id = boards[q[1]].id
               /\ boards[m[1]].lists[m[2]].id = boards[q[1]].lists[q[2]].id
               /\ boards[m[1]].lists[m[2]].cards[m[3]].id = card.id
               /\ OnlyCardRetitled(boards, r.boards, m, title)

\* a step of the modal that counts as an operation and leaves the numbers of boards,
\* lists and cards as they are is an edit of a card
C26_Step ==
    (/\ ops' = ops + 1
     /\ okCardCalls' = okCardCalls
     /\ Len(boards') = Len(boards)
     /\ TotalLists(boards') = TotalLists(boards)
     /\ TotalCards(boards') = TotalCards(boards))
        => \E m \in CardPlaces, title \in EditTitles :
               OnlyCardRetitled(boards, boards', m, title)

\* C26: updateCard on ids that resolve replaces the title of the card they resolve
\* to and nothing else: the card keeps its id, description, aiSuggested flag and
\* place, every other card, every list and every board is as before, and there are
\* as many boards, lists and cards as before.
C26_UpdateCardReplacesOnlyTheTitle == []C26_Inv /\ [][C26_Step]_vars

\* the seed's first card has been given another title through the modal and has kept
\* its description, next to the seed's other cards
C26_Witness ==
    /\ boards # << >>
    /\ Len(boards[1].lists) = 3
    /\ Len(boards[1].lists[1].cards) = 2
    /\ boards[1].lists[1].cards[1].id = CardId(1)
    /\ boards[1].lists[1].cards[1].title = trim(M_PaddedDraft)
    /\ boards[1].lists[1].cards[1].description = SampleData[1].lists[1].cards[1].description
    /\ boards[1].lists[1].cards[2] = SampleData[1].lists[1].cards[2]
    /\ ops = 1


\* ---- the order of the classifier's tests ----

\* the keywords of the four categories, in the order the claim gives them
CategoryKeywords ==
    << {KW_task, KW_card}, {KW_organize, KW_structure}, {KW_help, KW_how},
       {KW_create, KW_add} >>

\* the first category with a keyword in the lower-cased message, 0 when there is none
FirstCategory(message) ==
    LET hits == {c \in 1..Len(CategoryKeywords) :
                    \E w \in CategoryKeywords[c] : includes(toLowerCase(message), w)}
    IN  IF hits = {} THEN 0 ELSE CHOOSE c \in hits : \A d \in hits : c <= d

\* the texts a category answers with
CategoryTexts(c) ==
    CASE c = 1 -> {suggestions[k] : k \in 1..Len(suggestions)}
      [] c = 2 -> {organizationTips[k] : k \in 1..Len(organizationTips)}
      [] c = 3 -> {helpResponse}
      [] c = 4 -> {createdTemplate, specifyResponse}
      [] c = 0 -> {defaultResponses[k] : k \in 1..Len(defaultResponses)}

\* the step is the timer callback that answers a message
AnswersMessage ==
    /\ timers # << >>
    /\ Head(timers).kind = "aiResponse"
    /\ Len(timers') < Len(timers)

SuggestedCards(bs, title) ==
    {q \in UNION {UNION {{<<i, j, k>> : k \in 1..Len(bs[i].lists[j].cards)} :
                         j \in 1..Len(bs[i].lists)} : i \in 1..Len(bs)} :
        LET card == bs[q[1]].lists[q[2]].cards[q[3]]
        IN  /\ card.title = title
            /\ "aiSuggested" \in DOMAIN card
            /\ card.aiSuggested = TRUE}

\* C27 as stated: whenever the local classifier answers with the confirmation
\* "I've created a new task: ..." naming a task, that step has added exactly one
\* card to the board collection, titled with that name and marked aiSuggested, also
\* when there is no board or the first board has no list.
C27_ConfirmationMeansCardCreated ==
    [][ (AnswersMessage /\ lastOp'.response.text = createdTemplate) =>
           /\ TotalCards(boards') = TotalCards(boards) + 1
           /\ Cardinality(SuggestedCards(boards', lastOp'.response.taskName))
                 = Cardinality(SuggestedCards(boards, lastOp'.response.taskName)) + 1
      ]_vars

====
